---- MODULE Spec2Model ----
(***************************************************************************)
(* Model of the command-line interpreter of ben (interactive binary        *)
(* viewer): the tokenizer, the statement parser, the value expander        *)
(* (unescape_string_literal), the variable store and the REPL that runs    *)
(* PRE_COMMAND, the user line and POST_COMMAND.                            *)
(*                                                                         *)
(* A string is a sequence of characters; a character is a TLA+ string.    *)
(* Control characters are written by name: "LF", "CR", "NUL", "BEL",       *)
(* "ESC", "TAB", "VT".                                                     *)
(***************************************************************************)
EXTENDS Integers, Sequences, FiniteSets, TLC

VARIABLES
    variable_map,   \* variable.cc: name -> value (absent name = not defined)
    str,            \* the raw text handed to unescape_string_literal
    epos,           \* position of the next character of str to be read
    est,            \* the locals of unescape_string_literal
    eout,           \* how the call ended: "running", "returned", "thrown"
    commandline,    \* the line handed to parse_command_line
    tst,            \* the locals of tokenize
    tout,           \* "running", "tokenized", "parsed", "thrown"
    chain_out,      \* the chain parse_command_line returned
    repl_exited,    \* interactive.cc: the exit flag
    pc,             \* where start_repl is
    phase,          \* which execute_command_line call runs: "pre", "line", "post"
    line,           \* the line readline returned
    chain,          \* the statements of the chain being executed (first)
    ip,             \* the statement the chain pointer is at
    live_nodes,     \* chain nodes allocated and not yet deleted
    dispatched,     \* the calls of command_execute so far
    diagnostics,    \* number of e.what() lines start_repl printed
    auto_shell,     \* modes::auto_shell
    lines_read,     \* number of lines readline returned
    store_call,     \* the last call of lookup_variable or add_variable
    dst,            \* the locals of command_execute
    files,          \* file.cc: the loaded buffers, each with its size and cursor
    default_file_num, \* file.cc: the index of the default buffer
    file_call,      \* the last buffer command run, with its status
    mode_call       \* the last call of the mode handler, with its status

evars == <<str, epos, est, eout>>

tvars == <<commandline, tst, tout, chain_out>>

rvars == <<repl_exited, pc, phase, line, chain, ip, live_nodes, dispatched,
           diagnostics, auto_shell, lines_read>>

svars == <<store_call>>

dvars == <<dst>>

fvars == <<files, default_file_num, file_call>>

mvars == <<mode_call>>

vars == <<variable_map, evars, tvars, rvars, svars, dvars, fvars, mvars>>

(***************************************************************************)
(* Bounds of the model.                                                    *)
(***************************************************************************)
MaxStrLen == 4

MaxLineLen == 5

MaxLines == 3

(***************************************************************************)
(* Characters.                                                             *)
(***************************************************************************)
Letters ==
    {"a", "b", "c", "d", "e", "f", "g", "h", "i", "j", "k", "l", "m",
     "n", "o", "p", "q", "r", "s", "t", "u", "v", "w", "x", "y", "z",
     "A", "B", "C", "D", "E", "F", "G", "H", "I", "J", "K", "L", "M",
     "N", "O", "P", "Q", "R", "S", "T", "U", "V", "W", "X", "Y", "Z"}

Digits == {"0", "1", "2", "3", "4", "5", "6", "7", "8", "9"}

isalpha(c) == c \in Letters

isalnum(c) == c \in Letters \cup Digits

SeqsUpTo(S, n) == UNION {[1..k -> S] : k \in 0..n}

(***************************************************************************)
(* Variable store.                                                         *)
(***************************************************************************)
lookup_variable(map, name) ==
    IF name \in DOMAIN map THEN map[name] ELSE <<>>

add_variable(map, key, value) ==
    [k \in DOMAIN map \cup {key} |-> IF k = key THEN value ELSE map[k]]

(***************************************************************************)
(* Value expander: unescape_string_literal, one character at a time.       *)
(***************************************************************************)
ExpandLocals ==
    [result       |-> <<>>,
     double_quot  |-> FALSE,
     single_quot  |-> FALSE,
     var_expand   |-> "NONE",
     var_name     |-> <<>>,
     esc_sequence |-> FALSE,
     thrown       |-> FALSE]

\* expand_variable that expands the value once more when the value is
\* itself a `$' followed by a name.
expand_variable_Again(result, var_name, map) ==
    LET v == lookup_variable(map, var_name)
    IN  result \o (IF v # <<>> /\ v[1] = "$"
                   THEN lookup_variable(map, Tail(v)) ELSE v)

\* result += lookup_variable(var_name)
expand_variable(result, var_name, map) ==
    result \o lookup_variable(map, var_name)

\* The escape table with the entry for 'v' forgotten.
Unescaped_NoVT(c) ==
    CASE c = "0" -> "NUL"
      [] c = "a" -> "BEL"
      [] c = "e" -> "ESC"
      [] c = "n" -> "LF"
      [] c = "t" -> "TAB"
      [] OTHER   -> c

\* The escape table of the double-quoted region.
Unescaped(c) ==
    CASE c = "0" -> "NUL"
      [] c = "a" -> "BEL"
      [] c = "e" -> "ESC"
      [] c = "n" -> "LF"
      [] c = "t" -> "TAB"
      [] c = "v" -> "VT"
      [] OTHER   -> c

\* switch (c) at the end of the loop body.
ExpandNormal(s, c) ==
    CASE c = "\"" -> [s EXCEPT !.double_quot = ~s.double_quot]
      [] c = "'"  -> [s EXCEPT !.single_quot = TRUE]
      [] c = "\\" -> [s EXCEPT !.esc_sequence = TRUE]
      [] c = "$"  -> [s EXCEPT !.var_expand = "MAYBE"]
      [] OTHER    -> [s EXCEPT !.result = Append(s.result, c)]

\* The substitution branch without var_name.clear() after a plain name.
ExpandSubst_KeepName(s, c, map) ==
    IF s.var_expand = "NONE"
    THEN ExpandNormal(s, c)
    ELSE IF s.var_expand = "MAYBE" /\ c = "{"
    THEN [s EXCEPT !.var_expand = "BRACE"]
    ELSE LET ty == IF s.var_expand = "MAYBE" THEN "PLAIN" ELSE s.var_expand
             t  == [s EXCEPT !.var_expand = ty]
         IN  IF t.var_name = <<>>
             THEN IF isalpha(c) \/ c = "_"
                  THEN [t EXCEPT !.var_name = Append(t.var_name, c)]
                  ELSE ExpandNormal([t EXCEPT !.result = Append(t.result, "$"),
                                              !.var_expand = "NONE"], c)
             ELSE IF isalnum(c) \/ c = "_"
                  THEN [t EXCEPT !.var_name = Append(t.var_name, c)]
                  ELSE IF ty = "PLAIN"
                       THEN ExpandNormal(
                                [t EXCEPT !.result = expand_variable(t.result, t.var_name, map),
                                          !.var_expand = "NONE"], c)
                       ELSE IF c = "}"
                            THEN [t EXCEPT !.result = expand_variable(t.result, t.var_name, map),
                                           !.var_name = <<>>,
                                           !.var_expand = "NONE"]
                            ELSE [t EXCEPT !.thrown = TRUE]

\* if (static_cast<int>(var_expand)) { ... } followed by the switch.
ExpandSubst(s, c, map) ==
    IF s.var_expand = "NONE"
    THEN ExpandNormal(s, c)
    ELSE IF s.var_expand = "MAYBE" /\ c = "{"
    THEN [s EXCEPT !.var_expand = "BRACE"]
    ELSE LET ty == IF s.var_expand = "MAYBE" THEN "PLAIN" ELSE s.var_expand
             t  == [s EXCEPT !.var_expand = ty]
         IN  IF t.var_name = <<>>
             THEN IF isalpha(c) \/ c = "_"
                  THEN [t EXCEPT !.var_name = Append(t.var_name, c)]
                  ELSE ExpandNormal([t EXCEPT !.result = Append(t.result, "$"),
                                              !.var_expand = "NONE"], c)
             ELSE IF isalnum(c) \/ c = "_"
                  THEN [t EXCEPT !.var_name = Append(t.var_name, c)]
                  ELSE IF ty = "PLAIN"
                       THEN ExpandNormal(
                                [t EXCEPT !.result = expand_variable(t.result, t.var_name, map),
                                          !.var_name = <<>>,
                                          !.var_expand = "NONE"], c)
                       ELSE IF c = "}"
                            THEN [t EXCEPT !.result = expand_variable(t.result, t.var_name, map),
                                           !.var_name = <<>>,
                                           !.var_expand = "NONE"]
                            ELSE [t EXCEPT !.thrown = TRUE]

\* One iteration of the loop without the branch that handles the character
\* after a backslash inside double quotes.
ExpandChar_NoEscape(s, c, map) ==
    IF s.single_quot
    THEN [s EXCEPT !.single_quot = (c = "'"),
                   !.result = Append(s.result, c)]
    ELSE ExpandSubst([s EXCEPT !.esc_sequence = FALSE], c, map)

\* One iteration of for (char c : str).
ExpandChar(s, c, map) ==
    IF s.single_quot
    THEN [s EXCEPT !.single_quot = (c = "'"),
                   !.result = Append(s.result, c)]
    ELSE IF s.esc_sequence /\ s.double_quot
    THEN [s EXCEPT !.esc_sequence = FALSE,
                   !.result = Append(s.result, Unescaped(c))]
    ELSE ExpandSubst([s EXCEPT !.esc_sequence = FALSE], c, map)

\* The code after the loop, with the literal `$' of a trailing `$' forgotten.
ExpandAtEnd_DropDollar(s, map) ==
    CASE s.var_expand = "PLAIN" -> [s EXCEPT !.result = expand_variable(s.result, s.var_name, map)]
      [] s.var_expand = "BRACE" -> [s EXCEPT !.thrown = TRUE]
      [] OTHER                  -> s

\* The code after the loop, with an open brace resolved like a plain name.
ExpandAtEnd_BraceAsPlain(s, map) ==
    CASE s.var_expand = "MAYBE" -> [s EXCEPT !.result = Append(s.result, "$")]
      [] s.var_expand \in {"PLAIN", "BRACE"} ->
             [s EXCEPT !.result = expand_variable(s.result, s.var_name, map)]
      [] OTHER                  -> s

\* The code after the loop.
ExpandAtEnd(s, map) ==
    CASE s.var_expand = "MAYBE" -> [s EXCEPT !.result = Append(s.result, "$")]
      [] s.var_expand = "PLAIN" -> [s EXCEPT !.result = expand_variable(s.result, s.var_name, map)]
      [] s.var_expand = "BRACE" -> [s EXCEPT !.thrown = TRUE]
      [] OTHER                  -> s

RECURSIVE ExpandFrom(_, _, _, _)
ExpandFrom(s, text, i, map) ==
    IF s.thrown THEN s
    ELSE IF i > Len(text) THEN ExpandAtEnd(s, map)
    ELSE ExpandFrom(ExpandChar(s, text[i], map), text, i + 1, map)

\* [thrown |-> bad substitution?, result |-> the returned string]
unescape_string_literal(text, map) ==
    LET s == ExpandFrom(ExpandLocals, text, 1, map)
    IN  [thrown |-> s.thrown, result |-> s.result]

(***************************************************************************)
(* Tokenizer.  Positions are the 0-based offsets of the code; character i  *)
(* of the code is line[i + 1] here.                                        *)
(***************************************************************************)
TokenizeLocals ==
    [current |-> [type |-> "NONE", begin |-> 0, end |-> 0],
     tokens  |-> <<>>,
     escaped |-> FALSE,
     i       |-> 0,
     thrown  |-> FALSE]

\* tokenize_quoted: the offset of the closing quote, or -1 for the throw.
RECURSIVE QuotedScan(_, _, _, _)
QuotedScan(ln, pos, end, escaped) ==
    IF pos >= Len(ln) THEN -1
    ELSE IF escaped THEN QuotedScan(ln, pos + 1, end, FALSE)
    ELSE IF ln[pos + 1] = end THEN pos
    ELSE QuotedScan(ln, pos + 1, end, ln[pos + 1] = "\\")

\* tokenize_quoted that looks for `"' whatever the opening quote is.
tokenize_quoted_DoubleOnly(ln, pos) ==
    QuotedScan(ln, pos + 1, "\"", FALSE)

\* tokenize_quoted that takes the end of the line for the closing quote.
tokenize_quoted_EndCloses(ln, pos) ==
    LET close == QuotedScan(ln, pos + 1, IF ln[pos + 1] = "'" THEN "'" ELSE "\"", FALSE)
    IN  IF close < 0 THEN Len(ln) - 1 ELSE close

\* tokenize_quoted that takes the next unescaped quote of either kind for
\* the closing one.
RECURSIVE QuotedScanAny(_, _, _)
QuotedScanAny(ln, pos, escaped) ==
    IF pos >= Len(ln) THEN -1
    ELSE IF escaped THEN QuotedScanAny(ln, pos + 1, FALSE)
    ELSE IF ln[pos + 1] \in {"\"", "'"} THEN pos
    ELSE QuotedScanAny(ln, pos + 1, ln[pos + 1] = "\\")

tokenize_quoted_AnyQuote(ln, pos) ==
    QuotedScanAny(ln, pos + 1, FALSE)

tokenize_quoted(ln, pos) ==
    QuotedScan(ln, pos + 1, IF ln[pos + 1] = "'" THEN "'" ELSE "\"", FALSE)

\* PUSH_CURRENT() without the test for NONE.
PUSH_CURRENT_Always(s) ==
    [s EXCEPT !.current.end = s.i,
              !.tokens = Append(s.tokens, [s.current EXCEPT !.end = s.i])]

\* PUSH_CURRENT()
PUSH_CURRENT(s) ==
    IF s.current.type # "NONE"
    THEN [s EXCEPT !.current.end = s.i,
                   !.tokens = Append(s.tokens, [s.current EXCEPT !.end = s.i])]
    ELSE s

\* RENEW_TOKEN(ty) without current.begin = i.
RENEW_TOKEN_KeepBegin(s, ty) ==
    [s EXCEPT !.current.type = ty]

\* RENEW_TOKEN(ty)
RENEW_TOKEN(s, ty) ==
    [s EXCEPT !.current.type = ty, !.current.begin = s.i]

\* One iteration of the for loop of tokenize, ++i included.
TokenizeChar(s, ln) ==
    LET c == ln[s.i + 1]
        next(t) == [t EXCEPT !.i = t.i + 1]
    IN  IF s.escaped
        THEN next([s EXCEPT !.escaped = FALSE])
        ELSE CASE c \in {"CR", "LF", ";"} ->
                      next(RENEW_TOKEN(PUSH_CURRENT(s), "END_STMT"))
               [] c = " " ->
                      next(RENEW_TOKEN(PUSH_CURRENT(s), "NONE"))
               [] c = "\\" ->
                      next([s EXCEPT !.escaped = TRUE])
               [] OTHER ->
                      LET t == IF s.current.type # "STRING"
                               THEN RENEW_TOKEN(PUSH_CURRENT(s), "STRING")
                               ELSE s
                      IN  IF c \in {"\"", "'"}
                          THEN LET close == tokenize_quoted(ln, s.i)
                               IN  IF close < 0
                                   THEN [t EXCEPT !.thrown = TRUE]
                                   ELSE next([t EXCEPT !.i = close])
                          ELSE next(t)

\* The code after the loop without the trailing END_STMT.
TokenizeAtEnd_NoTrailingEnd(s, ln) ==
    IF s.current.type # "NONE"
    THEN [s EXCEPT !.current.end = Len(ln),
                   !.tokens = Append(s.tokens, [s.current EXCEPT !.end = Len(ln)])]
    ELSE s

\* The code after the loop: the open token, then the trailing END_STMT.
TokenizeAtEnd(s, ln) ==
    LET t == IF s.current.type # "NONE"
             THEN [s EXCEPT !.current.end = Len(ln),
                            !.tokens = Append(s.tokens, [s.current EXCEPT !.end = Len(ln)])]
             ELSE s
    IN  [t EXCEPT !.current.type = "END_STMT",
                  !.tokens = Append(t.tokens, [t.current EXCEPT !.type = "END_STMT"])]

RECURSIVE TokenizeFrom(_, _)
TokenizeFrom(s, ln) ==
    IF s.thrown THEN s
    ELSE IF s.i >= Len(ln) THEN TokenizeAtEnd(s, ln)
    ELSE TokenizeFrom(TokenizeChar(s, ln), ln)

\* [thrown |-> parse error?, tokens |-> the returned vector]
tokenize(ln) ==
    LET s == TokenizeFrom(TokenizeLocals, ln)
    IN  [thrown |-> s.thrown, tokens |-> s.tokens]

(***************************************************************************)
(* Parser.                                                                 *)
(***************************************************************************)
\* std::string(commandline.begin() + b, commandline.begin() + e)
Span(ln, b, e) == SubSeq(ln, b + 1, e)

\* std::find(beg, en, '='): the offset of the first `=' of [b, e), or e.
RECURSIVE FindEq(_, _, _)
FindEq(ln, b, e) ==
    IF b >= e THEN e
    ELSE IF ln[b + 1] = "=" THEN b
    ELSE FindEq(ln, b + 1, e)

\* is_assignment without the loop over the characters before the `='.
is_assignment_FirstOnly(ln, tk) ==
    LET pos_eq == FindEq(ln, tk.begin, tk.end)
    IN  /\ pos_eq # tk.end
        /\ isalpha(ln[tk.begin + 1]) \/ ln[tk.begin + 1] = "_"

is_assignment(ln, tk) ==
    LET pos_eq == FindEq(ln, tk.begin, tk.end)
    IN  /\ pos_eq # tk.end
        /\ isalpha(ln[tk.begin + 1]) \/ ln[tk.begin + 1] = "_"
        /\ \A k \in (tk.begin + 1)..(pos_eq - 1) :
               isalnum(ln[k + 1]) \/ ln[k + 1] = "_"

\* The inner for loop of parse without the test for STRING: it runs to the
\* end of the tokens.
ArgsEnd_ToTheEnd(tokens, i) == Len(tokens)

\* The inner for loop of parse leaving after its first iteration.
ArgsEnd_One(tokens, i) == i + 1

\* The inner for loop of parse: the offset of the first token from i on that
\* is not a STRING (or the number of tokens).
RECURSIVE ArgsEnd(_, _)
ArgsEnd(tokens, i) ==
    IF i >= Len(tokens) THEN i
    ELSE IF tokens[i + 1].type # "STRING" THEN i
    ELSE ArgsEnd(tokens, i + 1)

\* The chain built from token i on, as the sequence of its statements.
RECURSIVE ParseFrom(_, _, _)
ParseFrom(ln, tokens, i) ==
    IF i >= Len(tokens) THEN <<>>
    ELSE IF tokens[i + 1].type = "END_STMT" THEN ParseFrom(ln, tokens, i + 1)
    ELSE IF is_assignment(ln, tokens[i + 1])
    THEN LET tk == tokens[i + 1]
             eq == FindEq(ln, tk.begin, tk.end)
         IN  <<[type |-> "ASSIGN",
                lhs  |-> Span(ln, tk.begin, eq),
                rhs  |-> Span(ln, eq + 1, tk.end)]>>
             \o ParseFrom(ln, tokens, i + 1)
    ELSE LET e == ArgsEnd(tokens, i)
         IN  <<[type |-> "COMMAND",
                command_line |-> [k \in 1..(e - i) |->
                    Span(ln, tokens[i + k].begin, tokens[i + k].end)]]>>
             \o ParseFrom(ln, tokens, e + 1)

parse(ln, tokens) == ParseFrom(ln, tokens, 0)

\* [thrown |-> parse error?, chain |-> the statements of the chain]
parse_command_line(ln) ==
    LET t == tokenize(ln)
    IN  IF t.thrown
        THEN [thrown |-> TRUE, chain |-> <<>>]
        ELSE [thrown |-> FALSE, chain |-> parse(ln, t.tokens)]

(***************************************************************************)
(* A part of the interpreter that a specification does not run stays idle. *)
(***************************************************************************)
ExpandIdle ==
    /\ str = <<>>
    /\ epos = 1
    /\ est = ExpandLocals
    /\ eout = "idle"

TokenizeIdle ==
    /\ commandline = <<>>
    /\ tst = TokenizeLocals
    /\ tout = "idle"
    /\ chain_out = <<>>

NoCall == [op |-> "none", key |-> <<>>, value |-> <<>>]

StoreIdle == store_call = NoCall

DispatchIdle == dst = [pc |-> "idle"]

NoFileCall == [op |-> "none", args |-> <<>>, status |-> 0]

FilesIdle ==
    /\ files = <<>>
    /\ default_file_num = 0
    /\ file_call = NoFileCall

ModeIdle == mode_call = [pc |-> "idle"]

ReplIdle ==
    /\ repl_exited = FALSE
    /\ pc = "idle"
    /\ phase = "none"
    /\ line = <<>>
    /\ chain = <<>>
    /\ ip = 1
    /\ live_nodes = 0
    /\ dispatched = <<>>
    /\ diagnostics = 0
    /\ auto_shell = FALSE
    /\ lines_read = 0

(***************************************************************************)
(* parse_command_line run on every short line.                             *)
(***************************************************************************)
LineAlphabet == {"a", "=", " ", ";", "LF", "CR", "\"", "'", "\\"}

TokenizeInit ==
    /\ ExpandIdle
    /\ ReplIdle
    /\ StoreIdle
    /\ DispatchIdle
    /\ FilesIdle
    /\ ModeIdle
    /\ variable_map = <<>>
    /\ commandline \in SeqsUpTo(LineAlphabet, MaxLineLen)
    /\ tst = TokenizeLocals
    /\ tout = "running"
    /\ chain_out = <<>>

TokenizeStep ==
    /\ tout = "running"
    /\ tst.i < Len(commandline)
    /\ tst' = TokenizeChar(tst, commandline)
    /\ tout' = IF tst'.thrown THEN "thrown" ELSE "running"
    /\ UNCHANGED <<commandline, chain_out, variable_map, evars, rvars, svars, dvars, fvars, mvars>>

TokenizeFinish ==
    /\ tout = "running"
    /\ tst.i >= Len(commandline)
    /\ tst' = TokenizeAtEnd(tst, commandline)
    /\ tout' = "tokenized"
    /\ UNCHANGED <<commandline, chain_out, variable_map, evars, rvars, svars, dvars, fvars, mvars>>

ParseStep ==
    /\ tout = "tokenized"
    /\ chain_out' = parse(commandline, tst.tokens)
    /\ tout' = "parsed"
    /\ UNCHANGED <<commandline, tst, variable_map, evars, rvars, svars, dvars, fvars, mvars>>

(***************************************************************************)
(* The expander run on every short text, under a few variable stores.      *)
(***************************************************************************)
ExpandAlphabet == {"$", "{", "}", "\"", "'", "\\", "F", "1", "_", "-"}

Stores ==
    {<<>>,
     [n \in {<<"F">>, <<"F", "1">>} |-> IF n = <<"F">> THEN <<"b", "a", "r">> ELSE <<"z">>],
     [n \in {<<"F">>, <<"_">>} |-> IF n = <<"F">> THEN <<"$", "_">> ELSE <<"u">>]}

ExpandInit ==
    /\ TokenizeIdle
    /\ ReplIdle
    /\ StoreIdle
    /\ DispatchIdle
    /\ FilesIdle
    /\ ModeIdle
    /\ variable_map \in Stores
    /\ str \in SeqsUpTo(ExpandAlphabet, MaxStrLen)
    /\ epos = 1
    /\ est = ExpandLocals
    /\ eout = "running"

ExpandStep ==
    /\ eout = "running"
    /\ epos <= Len(str)
    /\ est' = ExpandChar(est, str[epos], variable_map)
    /\ epos' = epos + 1
    /\ eout' = IF est'.thrown THEN "thrown" ELSE "running"
    /\ UNCHANGED <<variable_map, str, tvars, rvars, svars, dvars, fvars, mvars>>

ExpandFinish ==
    /\ eout = "running"
    /\ epos > Len(str)
    /\ est' = ExpandAtEnd(est, variable_map)
    /\ eout' = IF est'.thrown THEN "thrown" ELSE "returned"
    /\ UNCHANGED <<variable_map, str, epos, tvars, rvars, svars, dvars, fvars, mvars>>

ExpandNext == ExpandStep \/ ExpandFinish

TokenizeNext == TokenizeStep \/ TokenizeFinish \/ ParseStep

SpecTokenize == TokenizeInit /\ [][TokenizeNext]_vars

SpecExpand == ExpandInit /\ [][ExpandNext]_vars

(***************************************************************************)
(* parse_command_line run on every short line made of the characters of    *)
(* assignments and commands.                                               *)
(***************************************************************************)
AssignAlphabet == {"a", "1", "_", "=", "-", " ", ";"}

AssignInit ==
    /\ ExpandIdle
    /\ ReplIdle
    /\ StoreIdle
    /\ DispatchIdle
    /\ FilesIdle
    /\ ModeIdle
    /\ variable_map = <<>>
    /\ commandline \in SeqsUpTo(AssignAlphabet, MaxLineLen)
    /\ tst = TokenizeLocals
    /\ tout = "running"
    /\ chain_out = <<>>

SpecAssign == AssignInit /\ [][TokenizeNext]_vars

(***************************************************************************)
(* The expander run on every short text over the characters of the escape  *)
(* table.                                                                  *)
(***************************************************************************)
EscapeAlphabet == {"\"", "\\", "$", "'", "0", "a", "e", "n", "t", "v", "x"}

EscapeInit ==
    /\ TokenizeIdle
    /\ ReplIdle
    /\ StoreIdle
    /\ DispatchIdle
    /\ FilesIdle
    /\ ModeIdle
    /\ variable_map \in Stores
    /\ str \in SeqsUpTo(EscapeAlphabet, MaxStrLen)
    /\ epos = 1
    /\ est = ExpandLocals
    /\ eout = "running"

SpecEscape == EscapeInit /\ [][ExpandNext]_vars

(***************************************************************************)
(* unescape_string_literal run on every short text enclosed in double      *)
(* quotes.                                                                 *)
(***************************************************************************)
QuotedAlphabet == {"$", "\\", "{", "}", "'", "F", "1", "_"}

DoubleQuoted(body) == <<"\"">> \o body \o <<"\"">>

QuotedInit ==
    /\ TokenizeIdle
    /\ ReplIdle
    /\ StoreIdle
    /\ DispatchIdle
    /\ FilesIdle
    /\ ModeIdle
    /\ variable_map \in Stores
    /\ str \in {DoubleQuoted(b) : b \in SeqsUpTo(QuotedAlphabet, MaxStrLen - 1)}
    /\ epos = 1
    /\ est = ExpandLocals
    /\ eout = "running"

SpecQuoted == QuotedInit /\ [][ExpandNext]_vars

(***************************************************************************)
(* Statement execution and command dispatch.                               *)
(***************************************************************************)
\* The names command_register is called with at start-up.
command_map ==
    {<<"h", "e", "l", "p">>,
     <<"m", "o", "d", "e">>,
     <<"e", "c", "h", "o">>,
     <<"e", "x", "i", "t">>,
     <<"c", "o", "m", "m", "a", "n", "d">>,
     <<"c", "d">>,
     <<"p", "w", "d">>,
     <<"p", "r", "i", "n", "t">>,
     <<"e", "n", "d", "i", "a", "n">>,
     <<"s", "t", "r", "i", "n", "g">>,
     <<"x", "d">>,
     <<"s", "e", "e", "k">>,
     <<"l", "o", "a", "d">>,
     <<"l", "s", "b", "u", "f">>,
     <<"d", "e", "f", "a", "u", "l", "t">>,
     <<"c", "u", "r", "s", "o", "r">>,
     <<"g", "o", "t", "o">>,
     <<"z", "l", "i", "b">>}

CommandName == <<"c", "o", "m", "m", "a", "n", "d">>

ExitName == <<"e", "x", "i", "t">>

XdName == <<"x", "d">>

Echo == <<"e", "c", "h", "o">>

SeekName == <<"s", "e", "e", "k">>

\* What the handler returns when it returns.  No buffer is ever loaded here,
\* so xd and seek find no default buffer and return 1; echo and exit return 0.
HandlerStatus(name) == IF name \in {XdName, SeekName} THEN 1 ELSE 0

DigitValue(c) ==
    CASE c = "0" -> 0 [] c = "1" -> 1 [] c = "2" -> 2 [] c = "3" -> 3 [] c = "4" -> 4
      [] c = "5" -> 5 [] c = "6" -> 6 [] c = "7" -> 7 [] c = "8" -> 8 [] c = "9" -> 9

\* LONG_MAX in decimal.
LongMaxDigits ==
    <<"9", "2", "2", "3", "3", "7", "2", "0", "3", "6",
      "8", "5", "4", "7", "7", "5", "8", "0", "7">>

\* std::stol(text, nullptr, 0) throws std::out_of_range, for a text of
\* decimal digits that does not begin with 0.
stol_out_of_range(text) ==
    /\ text # <<>>
    /\ \A i \in 1..Len(text) : text[i] \in Digits
    /\ text[1] # "0"
    /\ \/ Len(text) > Len(LongMaxDigits)
       \/ /\ Len(text) = Len(LongMaxDigits)
          /\ \E i \in 1..Len(text) :
                 /\ DigitValue(text[i]) > DigitValue(LongMaxDigits[i])
                 /\ \A k \in 1..(i - 1) : text[k] = LongMaxDigits[k]

\* The handler lets an exception escape: seek gives COUNT to std::stol,
\* whose std::out_of_range is neither turned into a std::runtime_error by
\* get_diff nor caught by the handler.
HandlerThrows(args) ==
    /\ args[1] = SeekName
    /\ Len(args) >= 2
    /\ stol_out_of_range(args[2])

\* The locals of command_execute when it is entered.
DispatchLocals(args, auto_shell_on, registry) ==
    [pc         |-> "entry",
     given      |-> args,
     args       |-> args,
     auto_shell |-> auto_shell_on,
     registry   |-> registry,
     lookups    |-> 0,
     prepends   |-> 0,
     handler    |-> <<>>,
     caught     |-> FALSE,
     status     |-> 0]

\* if (args.empty()) return 255;
command_execute_entry(d) ==
    IF d.args = <<>>
    THEN [d EXCEPT !.pc = "returned", !.status = 255]
    ELSE [d EXCEPT !.pc = "retry"]

\* The code at the label retry without the test args[0] != "command".
command_execute_retry_Always(d) ==
    LET f == [d EXCEPT !.lookups = d.lookups + 1]
    IN  IF f.args[1] \in f.registry
        THEN [f EXCEPT !.pc = "call"]
        ELSE IF f.auto_shell
        THEN [f EXCEPT !.args = <<CommandName>> \o f.args,
                       !.prepends = f.prepends + 1]
        ELSE [f EXCEPT !.pc = "returned", !.status = 255]

\* The code at the label retry: the lookup, and what is done when it fails.
command_execute_retry(d) ==
    LET f == [d EXCEPT !.lookups = d.lookups + 1]
    IN  IF f.args[1] \in f.registry
        THEN [f EXCEPT !.pc = "call"]
        ELSE IF f.args[1] # CommandName /\ f.auto_shell
        THEN [f EXCEPT !.args = <<CommandName>> \o f.args,
                       !.prepends = f.prepends + 1]
        ELSE [f EXCEPT !.pc = "returned", !.status = 255]

\* The call with an exception of the handler taken for its ordinary
\* failure status.
command_execute_call_NoCatch(d) ==
    [d EXCEPT !.pc = "returned",
              !.handler = d.args[1],
              !.caught = FALSE,
              !.status = HandlerStatus(d.args[1])]

\* try { retval = itr->second.cmd(args); } catch (...) { return 255; }
command_execute_call(d) ==
    IF HandlerThrows(d.args)
    THEN [d EXCEPT !.pc = "returned", !.handler = d.args[1],
                   !.caught = TRUE, !.status = 255]
    ELSE [d EXCEPT !.pc = "returned", !.handler = d.args[1],
                   !.status = HandlerStatus(d.args[1])]

command_execute_step(d) ==
    CASE d.pc = "entry" -> command_execute_entry(d)
      [] d.pc = "retry" -> command_execute_retry(d)
      [] d.pc = "call"  -> command_execute_call(d)

RECURSIVE command_execute_run(_)
command_execute_run(d) ==
    IF d.pc = "returned" THEN d ELSE command_execute_run(command_execute_step(d))

\* command_execute: the handler that runs (<<>> for none), the arguments it
\* is given, the status returned and whether an exception of the handler
\* was caught.
command_execute(args, auto_shell_on) ==
    LET d == command_execute_run(DispatchLocals(args, auto_shell_on, command_map))
    IN  [handler |-> d.handler, args |-> d.args, status |-> d.status,
         caught |-> d.caught]

\* assignment_statement::execute that stores the raw text.
assignment_execute_Raw(stmt, map) ==
    [thrown |-> FALSE, map |-> add_variable(map, stmt.lhs, stmt.rhs)]

\* assignment_statement::execute
assignment_execute(stmt, map) ==
    LET v == unescape_string_literal(stmt.rhs, map)
    IN  IF v.thrown
        THEN [thrown |-> TRUE, map |-> map]
        ELSE [thrown |-> FALSE, map |-> add_variable(map, stmt.lhs, v.result)]

NotEmpty(text) == text # <<>>

\* command_statement::execute leaving out the arguments that expand to the
\* empty string.
command_args_DropEmpty(stmt, map) ==
    LET ex == [k \in 1..Len(stmt.command_line) |->
                  unescape_string_literal(stmt.command_line[k], map)]
    IN  IF \E k \in 1..Len(ex) : ex[k].thrown
        THEN [thrown |-> TRUE, args |-> <<>>]
        ELSE [thrown |-> FALSE,
              args |-> SelectSeq([k \in 1..Len(ex) |-> ex[k].result], NotEmpty)]

\* command_statement::execute going on to dispatch unless the expansion of
\* the command name itself fails.
command_args_FirstOnly(stmt, map) ==
    LET ex == [k \in 1..Len(stmt.command_line) |->
                  unescape_string_literal(stmt.command_line[k], map)]
    IN  IF ex # <<>> /\ ex[1].thrown
        THEN [thrown |-> TRUE, args |-> <<>>]
        ELSE [thrown |-> FALSE, args |-> [k \in 1..Len(ex) |-> ex[k].result]]

\* command_statement::execute: the expanded arguments, or the throw of the
\* first argument whose expansion fails.
command_args(stmt, map) ==
    LET ex == [k \in 1..Len(stmt.command_line) |->
                  unescape_string_literal(stmt.command_line[k], map)]
    IN  IF \E k \in 1..Len(ex) : ex[k].thrown
        THEN [thrown |-> TRUE, args |-> <<>>]
        ELSE [thrown |-> FALSE, args |-> [k \in 1..Len(ex) |-> ex[k].result]]

(***************************************************************************)
(* The REPL.                                                               *)
(***************************************************************************)
PROMPT == <<"P", "R", "O", "M", "P", "T">>

PRE_COMMAND == <<"P", "R", "E", "_", "C", "O", "M", "M", "A", "N", "D">>

POST_COMMAND == <<"P", "O", "S", "T", "_", "C", "O", "M", "M", "A", "N", "D">>

\* set_initial_variables
InitialVariables ==
    add_variable(add_variable(add_variable(<<>>,
        PROMPT, <<"b", "e", "n", ">", " ">>),
        PRE_COMMAND, <<>>),
        POST_COMMAND, <<"x", "d">>)

\* std::string::c_str() read back as a C string: the text before the first NUL.
RECURSIVE c_str(_)
c_str(text) ==
    IF text = <<>> \/ text[1] = "NUL" THEN <<>>
    ELSE <<text[1]>> \o c_str(Tail(text))

\* The lines the user may type.
Lines ==
    {<<"X", "=", "1", ";", "e", "c", "h", "o", " ", "$", "X">>,
     <<"X", "=", "$", "Y", ";", "e", "c", "h", "o", " ", "$", "X">>,
     <<"Y", "=", "2">>,
     <<"X", "=", "1", ";", "e", "c", "h", "o", " ", "\"", "a", "b", "c">>,
     <<"Y", "=", "2", ";", "e", "c", "h", "o", " ", "'", "a", "b", "c">>,
     <<"e", "x", "i", "t">>,
     <<"e", "x", "i", "t", ";", "X", "=", "1">>,
     <<"n", "o", "s", "u", "c", "h", ";", "X", "=", "3">>,
     <<"X", "=", "1", ";", "Y", "=", "$", "{", ";", "Z", "=", "1">>,
     <<"P", "O", "S", "T", "_", "C", "O", "M", "M", "A", "N", "D", "=", "e", "x", "i", "t">>,
     <<"P", "R", "E", "_", "C", "O", "M", "M", "A", "N", "D", "=", "e", "x", "i", "t">>,
     <<"e", "x", "i", "t", ";", "Y", "=", "$", "{">>,
     <<"P", "R", "E", "_", "C", "O", "M", "M", "A", "N", "D", "=", "'", "\"", "'">>,
     <<"s", "e", "e", "k", " ", "9", "9", "9", "9", "9", "9", "9", "9", "9", "9", "9", "9", "9", "9", "9", "9", "9", "9", "9", "9", ";", "X", "=", "3">>,
     <<"X", "=", "'", "a", " ", "b", "'", ";", "e", "c", "h", "o", " ", "$", "X", " ", "$", "Z">>,
     <<"e", "c", "h", "o", " ", "a", " ", "$", "{">>}

ReplInit ==
    /\ ExpandIdle
    /\ TokenizeIdle
    /\ StoreIdle
    /\ DispatchIdle
    /\ FilesIdle
    /\ ModeIdle
    /\ variable_map = InitialVariables
    /\ repl_exited = FALSE
    /\ pc = "readline"
    /\ phase = "none"
    /\ line = <<>>
    /\ chain = <<>>
    /\ ip = 1
    /\ live_nodes = 0
    /\ dispatched = <<>>
    /\ diagnostics = 0
    /\ auto_shell = FALSE
    /\ lines_read = 0

\* readline returns a line.
ReadLine ==
    /\ pc = "readline"
    /\ lines_read < MaxLines
    /\ \E l \in Lines : line' = l
    /\ lines_read' = lines_read + 1
    /\ pc' = "parse"
    /\ phase' = "pre"
    /\ UNCHANGED <<variable_map, evars, tvars, svars, dvars, fvars, mvars, repl_exited, chain, ip,
                   live_nodes, dispatched, diagnostics, auto_shell>>

\* readline returns null: the loop is left.
EndOfInput ==
    /\ pc = "readline"
    /\ pc' = "done"
    /\ UNCHANGED <<variable_map, evars, tvars, svars, dvars, fvars, mvars, repl_exited, phase, line, chain,
                   ip, live_nodes, dispatched, diagnostics, auto_shell, lines_read>>

\* start_repl giving POST_COMMAND to the call before the line and
\* PRE_COMMAND to the call after it.
CommandText_Swapped ==
    CASE phase = "pre"  -> c_str(lookup_variable(variable_map, POST_COMMAND))
      [] phase = "line" -> line
      [] phase = "post" -> c_str(lookup_variable(variable_map, PRE_COMMAND))

\* The text the running execute_command_line call was given.
CommandText ==
    CASE phase = "pre"  -> c_str(lookup_variable(variable_map, PRE_COMMAND))
      [] phase = "line" -> line
      [] phase = "post" -> c_str(lookup_variable(variable_map, POST_COMMAND))

\* execute_command_line: parse_command_line(cmd).
ParseLine ==
    /\ pc = "parse"
    /\ LET r == parse_command_line(CommandText)
       IN  IF r.thrown
           THEN /\ pc' = "catch"
                /\ UNCHANGED <<chain, ip, live_nodes>>
           ELSE /\ pc' = "exec"
                /\ chain' = r.chain
                /\ ip' = 1
                /\ live_nodes' = live_nodes + Len(r.chain)
    /\ UNCHANGED <<variable_map, evars, tvars, svars, dvars, fvars, mvars, repl_exited, phase, line,
                   dispatched, diagnostics, auto_shell, lines_read>>

\* chain->stmt->execute() on an assignment; chain = chain->next.
ExecuteAssignment ==
    /\ pc = "exec"
    /\ ip <= Len(chain)
    /\ chain[ip].type = "ASSIGN"
    /\ LET r == assignment_execute(chain[ip], variable_map)
       IN  /\ variable_map' = r.map
           /\ IF r.thrown
              THEN pc' = "catch" /\ ip' = ip
              ELSE pc' = "exec" /\ ip' = ip + 1
    /\ UNCHANGED <<evars, tvars, svars, dvars, fvars, mvars, repl_exited, phase, line, chain, live_nodes,
                   dispatched, diagnostics, auto_shell, lines_read>>

\* The loop of execute_command_line leaving the chain after a command that
\* returned a status other than 0.
ExecuteCommand_StopOnFailure ==
    /\ pc = "exec"
    /\ ip <= Len(chain)
    /\ chain[ip].type = "COMMAND"
    /\ LET a == command_args(chain[ip], variable_map)
           r == command_execute(a.args, auto_shell)
       IN  IF a.thrown
           THEN /\ pc' = "catch"
                /\ UNCHANGED <<ip, dispatched, repl_exited>>
           ELSE /\ pc' = "exec"
                /\ ip' = IF r.status = 0 THEN ip + 1 ELSE Len(chain) + 1
                /\ dispatched' = Append(dispatched, r)
                /\ repl_exited' = (repl_exited \/ r.handler = ExitName)
    /\ UNCHANGED <<variable_map, evars, tvars, svars, dvars, fvars, mvars, phase, line, chain, live_nodes,
                   diagnostics, auto_shell, lines_read>>

\* chain->stmt->execute() on a command; chain = chain->next.
ExecuteCommand ==
    /\ pc = "exec"
    /\ ip <= Len(chain)
    /\ chain[ip].type = "COMMAND"
    /\ LET a == command_args(chain[ip], variable_map)
           r == command_execute(a.args, auto_shell)
       IN  IF a.thrown
           THEN /\ pc' = "catch"
                /\ UNCHANGED <<ip, dispatched, repl_exited>>
           ELSE /\ pc' = "exec"
                /\ ip' = ip + 1
                /\ dispatched' = Append(dispatched, r)
                /\ repl_exited' = (repl_exited \/ r.handler = ExitName)
    /\ UNCHANGED <<variable_map, evars, tvars, svars, dvars, fvars, mvars, phase, line, chain, live_nodes,
                   diagnostics, auto_shell, lines_read>>

\* command_chain_clean_up(first), and what start_repl does next.
CleanUp ==
    /\ pc = "exec"
    /\ ip > Len(chain)
    /\ live_nodes' = live_nodes - Len(chain)
    /\ chain' = <<>>
    /\ ip' = 1
    /\ CASE phase = "pre"  -> pc' = "parse" /\ phase' = "line"
         [] phase = "line" -> IF repl_exited
                              THEN pc' = "done" /\ phase' = "none"
                              ELSE pc' = "parse" /\ phase' = "post"
         [] phase = "post" -> pc' = "readline" /\ phase' = "none"
    /\ UNCHANGED <<variable_map, evars, tvars, svars, dvars, fvars, mvars, repl_exited, line, dispatched,
                   diagnostics, auto_shell, lines_read>>

\* start_repl letting the exception end the loop.
Catch_EndsSession ==
    /\ pc = "catch"
    /\ diagnostics' = diagnostics + 1
    /\ pc' = "done"
    /\ phase' = "none"
    /\ UNCHANGED <<variable_map, evars, tvars, svars, dvars, fvars, mvars, repl_exited, line, chain, ip,
                   live_nodes, dispatched, auto_shell, lines_read>>

\* The catch block clearing the exit flag before the loop goes on.
Catch_ClearsFlag ==
    /\ pc = "catch"
    /\ diagnostics' = diagnostics + 1
    /\ pc' = "readline"
    /\ phase' = "none"
    /\ repl_exited' = FALSE
    /\ UNCHANGED <<variable_map, evars, tvars, svars, dvars, fvars, mvars, line, chain, ip,
                   live_nodes, dispatched, auto_shell, lines_read>>

\* catch (std::exception const &e): print e.what() and go on with the loop.
Catch ==
    /\ pc = "catch"
    /\ diagnostics' = diagnostics + 1
    /\ pc' = "readline"
    /\ phase' = "none"
    /\ UNCHANGED <<variable_map, evars, tvars, svars, dvars, fvars, mvars, repl_exited, line, chain, ip,
                   live_nodes, dispatched, auto_shell, lines_read>>

Next ==
    \/ ReadLine
    \/ EndOfInput
    \/ ParseLine
    \/ ExecuteAssignment
    \/ ExecuteCommand
    \/ CleanUp
    \/ Catch

Spec == ReplInit /\ [][Next]_vars

(***************************************************************************)
(* The variable store called directly: any sequence of lookup_variable and *)
(* add_variable on the store set_initial_variables has filled.             *)
(***************************************************************************)
StoreNames == {<<"X">>, <<"Y">>, PROMPT}

StoreValues == {<<>>, <<"1">>, <<"2">>}

StoreInit ==
    /\ ExpandIdle
    /\ TokenizeIdle
    /\ ReplIdle
    /\ variable_map = InitialVariables
    /\ store_call = NoCall
    /\ DispatchIdle
    /\ FilesIdle
    /\ ModeIdle

\* lookup_variable written with variable_map[name], which inserts the name.
StoreLookup_Creates ==
    \E k \in StoreNames :
        /\ store_call' = [op |-> "lookup", key |-> k,
                          value |-> lookup_variable(variable_map, k)]
        /\ variable_map' = IF k \in DOMAIN variable_map THEN variable_map
                           ELSE add_variable(variable_map, k, <<>>)
        /\ UNCHANGED <<evars, tvars, rvars, dvars, fvars, mvars>>

\* lookup_variable(name)
StoreLookup ==
    \E k \in StoreNames :
        /\ store_call' = [op |-> "lookup", key |-> k,
                          value |-> lookup_variable(variable_map, k)]
        /\ UNCHANGED <<variable_map, evars, tvars, rvars, dvars, fvars, mvars>>

\* add_variable(key, value)
StoreAdd ==
    \E k \in StoreNames, v \in StoreValues :
        /\ store_call' = [op |-> "add", key |-> k, value |-> v]
        /\ variable_map' = add_variable(variable_map, k, v)
        /\ UNCHANGED <<evars, tvars, rvars, dvars, fvars, mvars>>

StoreNext == StoreLookup \/ StoreAdd

SpecStore == StoreInit /\ [][StoreNext]_vars

(***************************************************************************)
(* command_execute called directly, one step per pass through its code:    *)
(* the test for an empty list, the lookup at the label retry, the call.    *)
(***************************************************************************)
\* uni_init registers command, cd and pwd only under #ifdef __unix__.
UnixOnly == {CommandName, <<"c", "d">>, <<"p", "w", "d">>}

Registries == {command_map, command_map \ UnixOnly}

NoSuch == <<"n", "o", "s", "u", "c", "h">>

TooLong ==
    <<"9", "9", "9", "9", "9", "9", "9", "9", "9", "9",
      "9", "9", "9", "9", "9", "9", "9", "9", "9", "9">>

\* The argument lists command_execute is called with.
DispatchArgs ==
    {<<>>,
     <<Echo>>,
     <<Echo, <<"a">>>>,
     <<ExitName>>,
     <<XdName>>,
     <<SeekName>>,
     <<SeekName, <<"1">>>>,
     <<SeekName, TooLong>>,
     <<SeekName, LongMaxDigits>>,
     <<NoSuch>>,
     <<NoSuch, <<"a">>>>,
     <<<<"l", "s">>, <<"-", "l">>>>,
     <<CommandName>>,
     <<CommandName, <<"l", "s">>>>,
     <<CommandName, CommandName>>,
     <<<<"c", "d">>>>}

DispatchInit ==
    /\ FilesIdle
    /\ ModeIdle
    /\ ExpandIdle
    /\ TokenizeIdle
    /\ ReplIdle
    /\ StoreIdle
    /\ variable_map = InitialVariables
    /\ \E a \in DispatchArgs, m \in BOOLEAN, r \in Registries :
           dst = DispatchLocals(a, m, r)

\* if (args.empty()) return 255;
DispatchEntry ==
    /\ dst.pc = "entry"
    /\ dst' = command_execute_entry(dst)
    /\ UNCHANGED <<variable_map, evars, tvars, rvars, svars, fvars, mvars>>

\* retry: the lookup, then the call, the prepend or the return of 255.
DispatchLookup ==
    /\ dst.pc = "retry"
    /\ dst' = command_execute_retry(dst)
    /\ UNCHANGED <<variable_map, evars, tvars, rvars, svars, fvars, mvars>>

\* The call of the handler inside the try block.
DispatchCall ==
    /\ dst.pc = "call"
    /\ dst' = command_execute_call(dst)
    /\ UNCHANGED <<variable_map, evars, tvars, rvars, svars, fvars, mvars>>

DispatchNext == DispatchEntry \/ DispatchLookup \/ DispatchCall

SpecDispatch == DispatchInit /\ [][DispatchNext]_vars

(***************************************************************************)
(* The buffer store (file.cc) and the commands that work on it.  A buffer  *)
(* is its size and its cursor; an argument list is a list of texts.        *)
(***************************************************************************)
MaxFiles == 2

\* The sizes of the files that can be loaded.
BufferSizes == {0, 1, 3}

\* The element of a set of one element; used to compute a value once and
\* name it.
The(S) == CHOOSE x \in S : TRUE

RECURSIVE SkipSpaces(_)
SkipSpaces(text) ==
    IF text # <<>> /\ text[1] = " " THEN SkipSpaces(Tail(text)) ELSE text

HexLetters == {"a", "b", "c", "d", "e", "f"}

HexValue(c) ==
    CASE c \in Digits -> DigitValue(c)
      [] c = "a" -> 10 [] c = "b" -> 11 [] c = "c" -> 12
      [] c = "d" -> 13 [] c = "e" -> 14 [] c = "f" -> 15

IsDigitIn(c, b) == (c \in Digits \cup HexLetters) /\ HexValue(c) < b

\* The length of the longest prefix of text made of digits of base b.
RECURSIVE DigitRun(_, _)
DigitRun(text, b) ==
    IF text = <<>> \/ ~IsDigitIn(text[1], b) THEN 0
    ELSE 1 + DigitRun(Tail(text), b)

\* The value of a text of digits of base b, acc being the value so far.
RECURSIVE ValueIn(_, _, _)
ValueIn(text, b, acc) ==
    IF text = <<>> THEN acc
    ELSE ValueIn(Tail(text), b, acc * b + HexValue(text[1]))

\* strtol as std::stoi / std::stol / std::stoul use it, for the short texts
\* of the argument lists here: leading spaces, a sign, with base 0 the
\* prefixes 0x (hexadecimal) and 0 (octal), then the longest run of digits;
\* what follows the run is ignored, and no digit at all is
\* std::invalid_argument.
ParseDigits(neg, t1, base) ==
    LET hex == /\ base = 0 /\ Len(t1) >= 3 /\ t1[1] = "0" /\ t1[2] \in {"x", "X"}
               /\ IsDigitIn(t1[3], 16)
        b   == IF hex THEN 16
               ELSE IF base = 0 /\ t1 # <<>> /\ t1[1] = "0" THEN 8
               ELSE IF base = 0 THEN 10 ELSE base
        t2  == IF hex THEN SubSeq(t1, 3, Len(t1)) ELSE t1
    IN  The({IF n = 0
             THEN [ok |-> FALSE, neg |-> FALSE, mag |-> 0]
             ELSE [ok |-> TRUE, neg |-> neg, mag |-> ValueIn(SubSeq(t2, 1, n), b, 0)]
                 : n \in {DigitRun(t2, b)}})

ParseInteger(text, base) ==
    The({ParseDigits(t0 # <<>> /\ t0[1] = "-",
                     IF t0 # <<>> /\ t0[1] \in {"-", "+"} THEN Tail(t0) ELSE t0,
                     base)
             : t0 \in {SkipSpaces(text)}})

\* The value std::stol returns.
Signed(r) == IF r.neg THEN 0 - r.mag ELSE r.mag

\* value < size for the size_t or unsigned value std::stoul / std::stoi give:
\* a negative number other than -0 wraps to a value above every size.
UnsignedBelow(r, size) == IF r.neg /\ r.mag > 0 THEN FALSE ELSE r.mag < size

\* get_file(repr): the buffer found (0 for nullptr, else its index + 1) and
\* the default buffer afterwards.
get_file(repr, fs, dflt) ==
    IF repr = <<>>
    THEN [f |-> IF dflt < Len(fs) THEN dflt + 1 ELSE 0, dflt |-> dflt]
    ELSE IF Len(repr) < 2
    THEN [f |-> 0, dflt |-> dflt]
    ELSE The({IF ~r.ok \/ ~UnsignedBelow(r, Len(fs))
              THEN [f |-> 0, dflt |-> dflt]
              ELSE [f |-> r.mag + 1, dflt |-> r.mag]
                  : r \in {ParseInteger(Tail(repr), 10)}})

\* The locals of an option_matcher: the next argument (0-based), the
\* std::runtime_error thrown if any, and the default buffer.
OptionMatcher(dflt) == [cursor |-> 1, thrown |-> FALSE, dflt |-> dflt]

\* option_matcher::get_diff() and get_diff(def): the matcher afterwards and
\* the value.  mandatory is TRUE for the form without default.
get_diff(o, args, mandatory, def) ==
    IF o.thrown THEN [o |-> o, val |-> def]
    ELSE IF o.cursor < Len(args)
    THEN The({IF r.ok
              THEN [o |-> [o EXCEPT !.cursor = o.cursor + 1], val |-> Signed(r)]
              ELSE [o |-> [o EXCEPT !.cursor = o.cursor + 1, !.thrown = TRUE],
                    val |-> def]
                  : r \in {ParseInteger(args[o.cursor + 1], 0)}})
    ELSE IF mandatory
    THEN [o |-> [o EXCEPT !.thrown = TRUE], val |-> def]
    ELSE [o |-> o, val |-> def]

\* option_matcher::get_size(): the matcher afterwards and the parsed number.
get_size(o, args) ==
    IF o.thrown THEN [o |-> o, r |-> [ok |-> FALSE, neg |-> FALSE, mag |-> 0]]
    ELSE IF o.cursor < Len(args)
    THEN The({[o |-> [o EXCEPT !.cursor = o.cursor + 1, !.thrown = ~r.ok], r |-> r]
                  : r \in {ParseInteger(args[o.cursor + 1], 0)}})
    ELSE [o |-> [o EXCEPT !.thrown = TRUE],
          r |-> [ok |-> FALSE, neg |-> FALSE, mag |-> 0]]

\* "%" followed by one or more decimal digits.
IsBufferRepr(arg) ==
    /\ Len(arg) >= 2
    /\ arg[1] = "%"
    /\ \A i \in 2..Len(arg) : arg[i] \in Digits

\* option_matcher::get_file_or_default(): the matcher afterwards and the
\* buffer (index + 1, 0 when it threw).
get_file_or_default(o, args, fs) ==
    IF o.thrown THEN [o |-> o, f |-> 0]
    ELSE LET named == o.cursor < Len(args)
             arg   == args[o.cursor + 1]
             o1    == IF named THEN [o EXCEPT !.cursor = o.cursor + 1] ELSE o
         IN  IF named /\ ~IsBufferRepr(arg)
             THEN [o |-> [o1 EXCEPT !.thrown = TRUE], f |-> 0]
             ELSE The({LET o2 == [o1 EXCEPT !.dflt = g.dflt]
                           d  == get_file(<<>>, fs, g.dflt)
                       IN  IF g.f = 0 \/ d.f = 0
                           THEN [o |-> [o2 EXCEPT !.thrown = TRUE], f |-> 0]
                           ELSE [o |-> o2, f |-> d.f]
                           : g \in {IF named THEN get_file(arg, fs, o1.dflt)
                                    ELSE [f |-> 1, dflt |-> o1.dflt]}})

\* option_matcher::must_not_remain()
must_not_remain(o, args) ==
    IF o.thrown \/ o.cursor = Len(args) THEN o ELSE [o EXCEPT !.thrown = TRUE]

\* What a handler leaves behind: its status, the buffers, the default.
Outcome(status, fs, dflt) == [status |-> status, files |-> fs, dflt |-> dflt]

\* The second half of seek, after its try block.
seek_move(count, f, n, o, fs) ==
    LET size == fs[f].size
        base == IF n >= 0 THEN n ELSE size + n
    IN  IF o.thrown THEN Outcome(1, fs, o.dflt)
        ELSE IF (n >= 0 /\ ~(n < size)) \/ (n < 0 /\ ~(0 - n < size))
        THEN Outcome(1, fs, o.dflt)
        ELSE IF (count >= 0 /\ base + count < size)
                \/ (count < 0 /\ 0 - count < base)
        THEN Outcome(0, [fs EXCEPT ![f].cursor = base + count], o.dflt)
        ELSE Outcome(1, fs, o.dflt)

\* seek COUNT [BUF] [BASE]
seek(args, fs, dflt) ==
    The({The({The({The({seek_move(c.val, g.f, b.val, o, fs)
        : o \in {must_not_remain(b.o, args)}})
        : b \in {get_diff(g.o, args, FALSE, IF g.f = 0 THEN 0 ELSE fs[g.f].cursor)}})
        : g \in {get_file_or_default(c.o, args, fs)}})
        : c \in {get_diff(OptionMatcher(dflt), args, TRUE, 0)}})

\* goto that accepts ADDR = size.
cursor_goto_UpToSize(args, fs, dflt) ==
    The({The({The({
        IF o.thrown THEN Outcome(1, fs, o.dflt)
        ELSE IF UnsignedBelow(a.r, fs[g.f].size + 1)
        THEN Outcome(0, [fs EXCEPT ![g.f].cursor = a.r.mag], o.dflt)
        ELSE Outcome(1, fs, o.dflt)
        : o \in {must_not_remain(g.o, args)}})
        : g \in {get_file_or_default(a.o, args, fs)}})
        : a \in {get_size(OptionMatcher(dflt), args)}})

\* goto ADDR [BUF]
cursor_goto(args, fs, dflt) ==
    The({The({The({
        IF o.thrown THEN Outcome(1, fs, o.dflt)
        ELSE IF UnsignedBelow(a.r, fs[g.f].size)
        THEN Outcome(0, [fs EXCEPT ![g.f].cursor = a.r.mag], o.dflt)
        ELSE Outcome(1, fs, o.dflt)
        : o \in {must_not_remain(g.o, args)}})
        : g \in {get_file_or_default(a.o, args, fs)}})
        : a \in {get_size(OptionMatcher(dflt), args)}})

CursorStyles == {<<"b", "i", "n">>, <<"o", "c", "t">>, <<"d", "e", "c">>, <<"h", "e", "x">>}

\* option_matcher::select_string(item, def_ind)
select_string(o, args, items) ==
    IF o.thrown \/ ~(o.cursor < Len(args)) THEN o
    ELSE [o EXCEPT !.cursor = o.cursor + 1,
                   !.thrown = args[o.cursor + 1] \notin items]

\* cursor [bin|oct|dec|hex] [BUF]: prints the cursor.
cursor(args, fs, dflt) ==
    The({The({The({Outcome(IF o.thrown THEN 1 ELSE 0, fs, o.dflt)
        : o \in {must_not_remain(g.o, args)}})
        : g \in {get_file_or_default(st, args, fs)}})
        : st \in {select_string(OptionMatcher(dflt), args, CursorStyles)}})

\* default [BUF]
default_file(args, fs, dflt) ==
    IF Len(args) < 2 THEN Outcome(0, fs, dflt)
    ELSE IF Len(args) = 2
    THEN The({Outcome(IF g.f = 0 THEN 1 ELSE 0, fs, g.dflt)
                  : g \in {get_file(args[2], fs, dflt)}})
    ELSE Outcome(1, fs, dflt)

\* load_file when the file opens: files.push_back(f).
load_file(size, fs) == Append(fs, [size |-> size, cursor |-> 0])

\* The texts given for COUNT, ADDR and BASE, and for BUF.
CountTexts == {<<"1">>, <<"-", "1">>, <<"x">>}

BaseTexts == {<<"0">>, <<"1">>, <<"-", "1">>, <<"-", "3">>}

AddrTexts == {<<"0">>, <<"3">>, <<"0", "x", "2">>, <<"-", "1">>, <<"x">>}

BufTexts == {<<"%", "0">>, <<"%", "1">>, <<"%", "7">>, <<"x", "1">>}

GotoName == <<"g", "o", "t", "o">>

CursorName == <<"c", "u", "r", "s", "o", "r">>

DefaultName == <<"d", "e", "f", "a", "u", "l", "t">>

LoadName == <<"l", "o", "a", "d">>

SeekArgLists ==
    {<<SeekName>>}
        \cup {<<SeekName, c>> : c \in CountTexts}
        \cup {<<SeekName, c, b>> : c \in CountTexts, b \in BufTexts}
        \cup {<<SeekName, c, b, n>> : c \in CountTexts, b \in BufTexts, n \in BaseTexts}

GotoArgLists ==
    {<<GotoName>>}
        \cup {<<GotoName, a>> : a \in AddrTexts}
        \cup {<<GotoName, a, b>> : a \in AddrTexts, b \in BufTexts}

CursorArgLists ==
    {<<CursorName>>, <<CursorName, <<"d", "e", "c">>>>, <<CursorName, <<"%", "0">>>>}
        \cup {<<CursorName, <<"d", "e", "c">>, b>> : b \in BufTexts}

DefaultArgLists ==
    {<<DefaultName>>} \cup {<<DefaultName, b>> : b \in BufTexts}

BuffersInit ==
    /\ ExpandIdle
    /\ TokenizeIdle
    /\ ReplIdle
    /\ StoreIdle
    /\ DispatchIdle
    /\ ModeIdle
    /\ variable_map = InitialVariables
    /\ files = <<>>
    /\ default_file_num = 0
    /\ file_call = NoFileCall

\* The state after a handler has run.
Ran(args, out) ==
    /\ files' = out.files
    /\ default_file_num' = out.dflt
    /\ file_call' = [op |-> args[1], args |-> args, status |-> out.status]
    /\ UNCHANGED <<variable_map, evars, tvars, rvars, svars, dvars, mvars>>

\* load FILE: the file opens and becomes a new buffer, or it does not;
\* load returns 0 either way.
Load ==
    /\ Len(files) < MaxFiles
    /\ \E fs \in {files} \cup {load_file(sz, files) : sz \in BufferSizes} :
           Ran(<<LoadName, <<"f">>>>, Outcome(0, fs, default_file_num))

Seek ==
    \E a \in SeekArgLists : \E out \in {seek(a, files, default_file_num)} : Ran(a, out)

Goto ==
    \E a \in GotoArgLists : \E out \in {cursor_goto(a, files, default_file_num)} : Ran(a, out)

Cursor ==
    \E a \in CursorArgLists : \E out \in {cursor(a, files, default_file_num)} : Ran(a, out)

Default ==
    \E a \in DefaultArgLists : \E out \in {default_file(a, files, default_file_num)} : Ran(a, out)

BuffersNext == Load \/ Seek \/ Goto \/ Cursor \/ Default

SpecBuffers == BuffersInit /\ [][BuffersNext]_vars

(***************************************************************************)
(* Truthiness of a text, and the mode command (variable.cc).               *)
(***************************************************************************)
UpperCase == <<"A", "B", "C", "D", "E", "F", "G", "H", "I", "J", "K", "L", "M",
               "N", "O", "P", "Q", "R", "S", "T", "U", "V", "W", "X", "Y", "Z">>

LowerCase == <<"a", "b", "c", "d", "e", "f", "g", "h", "i", "j", "k", "l", "m",
               "n", "o", "p", "q", "r", "s", "t", "u", "v", "w", "x", "y", "z">>

tolower(c) ==
    IF \E i \in 1..26 : UpperCase[i] = c
    THEN LowerCase[CHOOSE i \in 1..26 : UpperCase[i] = c]
    ELSE c

\* strcasecmp(a, b) = 0
strcasecmp_equal(a, b) ==
    /\ Len(a) = Len(b)
    /\ \A i \in 1..Len(a) : tolower(a[i]) = tolower(b[i])

RECURSIVE StripZeros(_)
StripZeros(digits) ==
    IF digits # <<>> /\ digits[1] = "0" THEN StripZeros(Tail(digits)) ELSE digits

\* A number written in decimal digits without leading zeros is above max.
DigitsAbove(digits, max) ==
    \/ Len(digits) > Len(max)
    \/ /\ Len(digits) = Len(max)
       /\ \E i \in 1..Len(digits) :
              /\ DigitValue(digits[i]) > DigitValue(max[i])
              /\ \A k \in 1..(i - 1) : digits[k] = max[k]

\* INT_MAX and -INT_MIN in decimal.
IntMaxDigits == <<"2", "1", "4", "7", "4", "8", "3", "6", "4", "7">>

IntMinDigits == <<"2", "1", "4", "7", "4", "8", "3", "6", "4", "8">>

\* std::stoi(expr): leading spaces, a sign, the longest run of decimal
\* digits.  It throws std::invalid_argument when there is no digit and
\* std::out_of_range when the number is not an int; otherwise zero says
\* whether the number is 0.
stoi(expr) ==
    LET t0  == SkipSpaces(expr)
        neg == t0 # <<>> /\ t0[1] = "-"
        t1  == IF t0 # <<>> /\ t0[1] \in {"-", "+"} THEN Tail(t0) ELSE t0
        n   == DigitRun(t1, 10)
        run == StripZeros(SubSeq(t1, 1, n))
    IN  [thrown |-> \/ n = 0
                    \/ DigitsAbove(run, IF neg THEN IntMinDigits ELSE IntMaxDigits),
         zero   |-> run = <<>>]

TrueWords == {<<"t", "r", "u", "e">>, <<"y", "e", "s">>, <<"o", "n">>}

FalseWords == {<<"f", "a", "l", "s", "e">>, <<"n", "o">>, <<"o", "f", "f">>}

is_truthy(expr) ==
    LET r == stoi(expr)
    IN  IF r.thrown
        THEN \E w \in TrueWords : strcasecmp_equal(expr, w)
        ELSE ~r.zero

is_falsy(expr) ==
    LET r == stoi(expr)
    IN  IF r.thrown
        THEN \E w \in FalseWords : strcasecmp_equal(expr, w)
        ELSE r.zero

ModeName == <<"m", "o", "d", "e">>

AutoShellKey == <<"a", "u", "t", "o", "-", "s", "h", "e", "l", "l">>

\* mode KEY VALUE: the status returned and modes::auto_shell afterwards.
mode(args, auto_shell_on) ==
    LET o0    == OptionMatcher(0)
        o1    == IF o0.cursor < Len(args) THEN [o0 EXCEPT !.cursor = 2]
                 ELSE [o0 EXCEPT !.thrown = TRUE]
        key   == IF o1.thrown THEN <<>> ELSE args[2]
        named == ~o1.thrown /\ o1.cursor < Len(args)
        value == IF named THEN args[3] ELSE <<>>
        o2    == IF named THEN [o1 EXCEPT !.cursor = 3] ELSE o1
        o     == must_not_remain(o2, args)
    IN  IF o.thrown THEN [status |-> 1, auto_shell |-> auto_shell_on]
        ELSE IF key = AutoShellKey /\ value # <<>>
        THEN [status |-> 0, auto_shell |-> is_truthy(value)]
        ELSE [status |-> 0, auto_shell |-> auto_shell_on]

\* The texts tested for truthiness and given to mode as VALUE.
ValueTexts ==
    {<<"t", "r", "u", "e">>,
     <<"T", "R", "U", "E">>,
     <<"T", "r", "u", "e">>,
     <<"t", "R", "u", "E">>,
     <<"y", "e", "s">>,
     <<"Y", "E", "S">>,
     <<"Y", "e", "s">>,
     <<"o", "n">>,
     <<"O", "N">>,
     <<"O", "n">>,
     <<"f", "a", "l", "s", "e">>,
     <<"F", "A", "L", "S", "E">>,
     <<"F", "a", "l", "s", "e">>,
     <<"n", "o">>,
     <<"N", "O">>,
     <<"N", "o">>,
     <<"o", "f", "f">>,
     <<"O", "F", "F">>,
     <<"O", "f", "f">>,
     <<"t", "r", "u">>,
     <<"t", "r", "u", "e", "e">>,
     <<" ", "t", "r", "u", "e">>,
     <<"o", "n", "n">>,
     <<"y">>,
     <<"n">>,
     <<"o", "f">>,
     <<"x", "1">>,
     <<"-">>,
     <<"+">>,
     <<"a">>,
     <<"0">>,
     <<"1">>,
     <<"-", "1">>,
     <<"+", "1">>,
     <<"0", "0">>,
     <<"0", "0", "7">>,
     <<"-", "0">>,
     <<"+", "0">>,
     <<" ", "1">>,
     <<" ", "0">>,
     <<"1", "x">>,
     <<"0", "x">>,
     <<"0", "x", "1">>,
     <<"1", "2", "a">>,
     <<"0", "o", "n">>,
     <<"1", "n", "o">>,
     <<"2", "1", "4", "7", "4", "8", "3", "6", "4", "7">>,
     <<"2", "1", "4", "7", "4", "8", "3", "6", "4", "8">>,
     <<"-", "2", "1", "4", "7", "4", "8", "3", "6", "4", "8">>,
     <<"-", "2", "1", "4", "7", "4", "8", "3", "6", "4", "9">>,
     <<"9", "9", "9", "9", "9", "9", "9", "9", "9", "9", "9">>,
     <<"0", "0", "0", "0", "0", "0", "0", "0", "0", "0", "0">>,
     <<"0", "0", "0", "0", "0", "0", "0", "0", "0", "0", "1">>}

ModeArgLists ==
    {<<ModeName>>, <<ModeName, AutoShellKey>>, <<ModeName, AutoShellKey, <<>>>>,
     <<ModeName, <<"x">>, <<"1">>>>, <<ModeName, AutoShellKey, <<"1">>, <<"2">>>>}
        \cup {<<ModeName, AutoShellKey, v>> : v \in ValueTexts}

ModeInit ==
    /\ ExpandIdle
    /\ TokenizeIdle
    /\ ReplIdle
    /\ StoreIdle
    /\ DispatchIdle
    /\ FilesIdle
    /\ ModeIdle
    /\ variable_map = InitialVariables

UnchangedByMode ==
    UNCHANGED <<variable_map, evars, tvars, svars, dvars, fvars, repl_exited, pc,
                phase, line, chain, ip, live_nodes, dispatched, diagnostics,
                lines_read>>

\* is_truthy and is_falsy applied to a text.
Truthiness ==
    \E v \in ValueTexts :
        /\ mode_call' = [pc |-> "tested", expr |-> v,
                         truthy |-> is_truthy(v), falsy |-> is_falsy(v)]
        /\ UNCHANGED auto_shell
        /\ UnchangedByMode

\* The mode handler run on an argument list.
Mode ==
    \E a \in ModeArgLists :
        LET r == mode(a, auto_shell)
        IN  /\ mode_call' = [pc |-> "returned", args |-> a, status |-> r.status,
                             before |-> auto_shell]
            /\ auto_shell' = r.auto_shell
            /\ UnchangedByMode

ModeNext == Truthiness \/ Mode

SpecMode == ModeInit /\ [][ModeNext]_vars

(***************************************************************************)
(* Properties of the expander.                                             *)
(***************************************************************************)
Range(f) == {f[i] : i \in DOMAIN f}

ExpandDone == eout \in {"returned", "thrown"}

\* [A-Za-z_][A-Za-z0-9_]*
IsIdentifier(N) ==
    /\ N # <<>>
    /\ N[1] \in Letters \cup {"_"}
    /\ \A i \in 2..Len(N) : N[i] \in Letters \cup Digits \cup {"_"}

\* Text in which no character has a meaning to the expander.
IsOrdinaryText(P) == \A i \in 1..Len(P) : P[i] \notin {"$", "\"", "'", "\\"}

ValueOf(N) == IF N \in DOMAIN variable_map THEN variable_map[N] ELSE <<>>

Before(k) == SubSeq(str, 1, k)

After(k) == SubSeq(str, k + 1, Len(str))

\* C4: after ordinary text, `$N' and `${N}' yield the value of N (the empty
\* string when N is not defined) and never an error; a `$' followed by
\* nothing, or by a character other than `{', a letter or `_', yields a
\* literal `$' followed by what the rest of the text expands to.
C4_SubstitutionAndLiteralDollar ==
    ExpandDone =>
        \A k \in 0..Len(str) :
            LET P == Before(k)
                T == After(k)
                R == Tail(T)
            IN  (IsOrdinaryText(P) /\ T # <<>> /\ T[1] = "$") =>
                    /\ IsIdentifier(R) =>
                           eout = "returned" /\ est.result = P \o ValueOf(R)
                    /\ (Len(R) >= 3 /\ R[1] = "{" /\ R[Len(R)] = "}"
                           /\ IsIdentifier(SubSeq(R, 2, Len(R) - 1))) =>
                           /\ eout = "returned"
                           /\ est.result = P \o ValueOf(SubSeq(R, 2, Len(R) - 1))
                    /\ (R = <<>> \/ R[1] \notin Letters \cup {"{", "_"}) =>
                           LET rest == unescape_string_literal(R, variable_map)
                           IN  IF rest.thrown
                               THEN eout = "thrown"
                               ELSE /\ eout = "returned"
                                    /\ est.result = P \o <<"$">> \o rest.result

C4_Witness ==
    /\ eout = "returned"
    /\ str = <<"$", "{", "F", "}">>
    /\ est.result = <<"b", "a", "r">>

\* C5: a text that ends inside `${' followed by the characters of a name (or
\* by none) fails with bad substitution; a text that ends in `$NAME' yields
\* the value of NAME and a text that ends in a lone `$' yields a literal `$'.
C5_OpenBraceAtEnd ==
    ExpandDone =>
        \A k \in 0..Len(str) :
            LET P == Before(k)
                T == After(k)
            IN  (IsOrdinaryText(P) /\ T # <<>> /\ T[1] = "$") =>
                    /\ (Len(T) >= 2 /\ T[2] = "{"
                           /\ (Len(T) = 2 \/ IsIdentifier(SubSeq(T, 3, Len(T))))) =>
                           eout = "thrown"
                    /\ IsIdentifier(Tail(T)) =>
                           eout = "returned" /\ est.result = P \o ValueOf(Tail(T))
                    /\ T = <<"$">> =>
                           eout = "returned" /\ est.result = P \o <<"$">>

C5_Witness ==
    /\ eout = "thrown"
    /\ str = <<"-", "$", "{", "F">>
    /\ est.var_expand = "BRACE"

\* C6: once `${' has been read, a character that is neither a character of
\* a name nor `}' makes the expansion fail with bad substitution, also when
\* no character of the name has been read yet.
C6_MalformedBraceFails ==
    ExpandDone =>
        \A k \in 0..Len(str) :
            LET P == Before(k)
                T == After(k)
            IN  (IsOrdinaryText(P) /\ Len(T) >= 3 /\ T[1] = "$" /\ T[2] = "{") =>
                    \A j \in 3..Len(T) :
                        (/\ (j = 3 \/ IsIdentifier(SubSeq(T, 3, j - 1)))
                         /\ ~IsIdentifier(SubSeq(T, 3, j))
                         /\ T[j] # "}") => eout = "thrown"

\* C7: a text between single quotes is returned verbatim.
C7_SingleQuotedVerbatim ==
    ExpandDone =>
        LET t == SubSeq(str, 2, Len(str) - 1)
        IN  (/\ Len(str) >= 2
             /\ str[1] = "'"
             /\ str[Len(str)] = "'"
             /\ "'" \notin Range(t)) =>
                eout = "returned" /\ est.result = t

\* The escape table as the documentation gives it.
EscapeTable(c) ==
    IF c \in {"0", "a", "e", "n", "t", "v"}
    THEN [x \in {"0", "a", "e", "n", "t", "v"} |->
             CASE x = "0" -> "NUL" [] x = "a" -> "BEL" [] x = "e" -> "ESC"
               [] x = "n" -> "LF"  [] x = "t" -> "TAB" [] x = "v" -> "VT"][c]
    ELSE c

\* C8: between double quotes a backslash followed by 0, a, e, n, t, v yields
\* NUL, BEL, ESC, LF, TAB, VT and followed by any other character yields that
\* character; outside double quotes `\n' yields no newline, so the text `\n'
\* and the same text between double quotes expand differently.
C8_EscapeTableInDoubleQuotes ==
    ExpandDone =>
        \A k \in 0..Len(str) :
            LET P == Before(k)
                T == After(k)
                Q == SubSeq(T, 3, Len(T))
                Q0 == SubSeq(Q, 1, Len(Q) - 1)
                quoted == unescape_string_literal(<<"\"">> \o str \o <<"\"">>, variable_map)
            IN  (Len(T) >= 2 /\ T[1] = "\\") =>
                    /\ (IsOrdinaryText(P) /\ T[2] = "n" /\ IsOrdinaryText(Q)) =>
                           /\ eout = "returned"
                           /\ "LF" \notin Range(est.result)
                           /\ ~quoted.thrown
                           /\ quoted.result # est.result
                    /\ (P # <<>> /\ P[1] = "\"" /\ IsOrdinaryText(Tail(P))) =>
                           /\ IsOrdinaryText(Q) =>
                                  /\ eout = "returned"
                                  /\ est.result = Tail(P) \o <<EscapeTable(T[2])>> \o Q
                           /\ (Q # <<>> /\ Q[Len(Q)] = "\"" /\ IsOrdinaryText(Q0)) =>
                                  /\ eout = "returned"
                                  /\ est.result = Tail(P) \o <<EscapeTable(T[2])>> \o Q0

C8_Witness ==
    /\ eout = "returned"
    /\ str = <<"\"", "\\", "n", "\"">>
    /\ est.result = <<"LF">>

\* C9: outside double quotes the character after an unescaped backslash
\* starts no substitution, toggles no quote and introduces no escape.
C9_BackslashSuppresses ==
    [][(/\ eout = "running" /\ epos <= Len(str)
        /\ est.esc_sequence /\ ~est.double_quot /\ ~est.single_quot)
       => (/\ est'.var_expand = "NONE"
           /\ est'.double_quot = est.double_quot
           /\ ~est'.single_quot
           /\ ~est'.esc_sequence)]_vars

(***************************************************************************)
(* Properties of the tokenizer.                                            *)
(***************************************************************************)
TokenizeDone == tout \in {"thrown", "tokenized", "parsed"}

Min(S) == CHOOSE x \in S : \A y \in S : x <= y

\* The number of backslashes that immediately precede character p.
RECURSIVE BackslashesBefore(_, _)
BackslashesBefore(ln, p) ==
    IF p <= 1 \/ ln[p - 1] # "\\" THEN 0
    ELSE 1 + BackslashesBefore(ln, p - 1)

\* Character p is a quote that no backslash escapes.
UnescapedQuoteAt(ln, p) ==
    /\ ln[p] \in {"\"", "'"}
    /\ BackslashesBefore(ln, p) % 2 = 0

\* From character `from' on (outside any quoted region) every unescaped
\* quote has an unescaped closing quote of its kind after it.
RECURSIVE QuotesMatchedFrom(_, _)
QuotesMatchedFrom(ln, from) ==
    LET opens == {p \in from..Len(ln) : UnescapedQuoteAt(ln, p)}
    IN  IF opens = {} THEN TRUE
        ELSE LET p == Min(opens)
                 closes == {q \in (p + 1)..Len(ln) :
                               ln[q] = ln[p] /\ UnescapedQuoteAt(ln, q)}
             IN  closes # {} /\ QuotesMatchedFrom(ln, Min(closes) + 1)

\* C2: tokenizing fails with the parse error exactly when some unescaped
\* quote met outside a quoted region has no unescaped closing quote of the
\* same kind before the end of the line.
C2_UnterminatedQuoteFails ==
    TokenizeDone => (tout = "thrown" <=> ~QuotesMatchedFrom(commandline, 1))

C2_Witness ==
    /\ tout = "thrown"
    /\ commandline = <<"'", "a", "\\", "'">>
    /\ tst.tokens = <<>>

IsSeparator(c) == c \in {";", "CR", "LF"}

IsBreak(c) == c = " " \/ IsSeparator(c)

\* The maximal runs of characters other than space, `;', CR and LF, as
\* pairs <<begin, end>> of offsets.
MaximalRuns(ln) ==
    {r \in (0..Len(ln)) \X (0..Len(ln)) :
        /\ r[1] < r[2]
        /\ \A p \in (r[1] + 1)..r[2] : ~IsBreak(ln[p])
        /\ r[1] = 0 \/ IsBreak(ln[r[1]])
        /\ r[2] = Len(ln) \/ IsBreak(ln[r[2] + 1])}

SeparatorOffsets(ln) == {p - 1 : p \in {q \in 1..Len(ln) : IsSeparator(ln[q])}}

\* C10: for a line without quotes and backslashes the tokens are, in source
\* order, one STRING per maximal run of characters other than space, `;', CR
\* and LF, spanning that run, one END_STMT per `;', CR or LF, and one more
\* END_STMT at the end; nothing else is emitted.
C10_TokensOfPlainLine ==
    (TokenizeDone /\ Range(commandline) \cap {"\"", "'", "\\"} = {}) =>
        /\ tout # "thrown"
        /\ LET toks == tst.tokens
               n    == Len(toks)
               body == 1..(n - 1)
               strs == {k \in body : toks[k].type = "STRING"}
               ends == {k \in body : toks[k].type = "END_STMT"}
           IN  /\ n >= 1
               /\ toks[n].type = "END_STMT"
               /\ strs \cup ends = body
               /\ {<<toks[k].begin, toks[k].end>> : k \in strs} = MaximalRuns(commandline)
               /\ Cardinality(strs) = Cardinality(MaximalRuns(commandline))
               /\ {toks[k].begin : k \in ends} = SeparatorOffsets(commandline)
               /\ Cardinality(ends) = Cardinality(SeparatorOffsets(commandline))
               /\ \A j, k \in body : j < k => toks[j].begin < toks[k].begin

C10_Witness ==
    /\ tout = "tokenized"
    /\ commandline = <<"a", " ", "a", ";", "a">>
    /\ Len(tst.tokens) = 5

(***************************************************************************)
(* Properties of the REPL.                                                 *)
(***************************************************************************)
NameX == <<"X">>

NameY == <<"Y">>


\* The user lines of the shape X=v;echo $X, for the raw values v.
C1Values == {<<"1">>, <<"$", "Y">>}

C1Line(v) == <<"X", "=">> \o v \o <<";">> \o Echo \o <<" ", "$", "X">>

\* What v expands to under the store m.
C1Expansion(v, m) ==
    IF v = <<"1">> THEN <<"1">>
    ELSE IF NameY \in DOMAIN m THEN m[NameY] ELSE <<>>

\* C1: while the user line X=v;echo $X runs, the first step stores the
\* expansion of v under X and dispatches nothing, and the second step
\* dispatches exactly echo with the value the first step stored.
C1_ExpansionAtExecution ==
    [][\A v \in C1Values :
          (phase = "line" /\ pc = "exec" /\ line = C1Line(v)) =>
              /\ ip = 1 =>
                    /\ ip' = 2
                    /\ NameX \in DOMAIN variable_map'
                    /\ variable_map'[NameX] = C1Expansion(v, variable_map)
                    /\ \A n \in DOMAIN variable_map \ {NameX} :
                           n \in DOMAIN variable_map' /\ variable_map'[n] = variable_map[n]
                    /\ dispatched' = dispatched
              /\ ip = 2 =>
                    /\ ip' = 3
                    /\ variable_map' = variable_map
                    /\ Len(dispatched') = Len(dispatched) + 1
                    /\ SubSeq(dispatched', 1, Len(dispatched)) = dispatched
                    /\ dispatched'[Len(dispatched')].args = <<Echo, variable_map[NameX]>>
                    /\ variable_map[NameX] = C1Expansion(v, variable_map)]_vars

C1_Witness ==
    /\ phase = "line"
    /\ pc = "exec"
    /\ line = C1Line(<<"$", "Y">>)
    /\ ip = 3
    /\ variable_map[NameX] = <<"2">>
    /\ dispatched[Len(dispatched)].args = <<Echo, <<"2">>>>

\* C3: while a user line with an unterminated quote is processed, no
\* statement is executed, and the variable store, the exit flag and the
\* dispatched commands stay as they were.
C3_TokenizeErrorIsFatal ==
    [][(phase = "line" /\ ~QuotesMatchedFrom(line, 1)) =>
          /\ pc # "exec"
          /\ pc' # "exec"
          /\ UNCHANGED <<variable_map, repl_exited, dispatched>>]_vars

C3_Witness ==
    /\ pc = "catch"
    /\ phase = "line"
    /\ line = <<"X", "=", "1", ";", "e", "c", "h", "o", " ", "\"", "a", "b", "c">>
    /\ NameX \notin DOMAIN variable_map
    /\ dispatched = <<>>

(***************************************************************************)
(* Properties of the token sequence.                                       *)
(***************************************************************************)
TokenizeSucceeded == tout \in {"tokenized", "parsed"}

\* C11: no token of kind NONE is ever emitted, and when tokenize succeeds
\* the sequence it returns is not empty and ends with an END_STMT token.
C11_TokensEndWithEndStmt ==
    /\ \A k \in 1..Len(tst.tokens) : tst.tokens[k].type \in {"STRING", "END_STMT"}
    /\ TokenizeSucceeded =>
           /\ Len(tst.tokens) >= 1
           /\ tst.tokens[Len(tst.tokens)].type = "END_STMT"

\* A line that ends with no token open: only the trailing END_STMT follows
\* the STRING.
C11_Witness ==
    /\ tout = "tokenized"
    /\ commandline = <<"a", " ">>
    /\ Len(tst.tokens) = 2
    /\ tst.tokens[1].type = "STRING"
    /\ tst.tokens[2].type = "END_STMT"

\* The quoted regions of a line from character `from' on, as pairs
\* <<opening quote, closing quote>> of character positions (1-based).
RECURSIVE Regions(_, _)
Regions(ln, from) ==
    LET opens == {p \in from..Len(ln) : UnescapedQuoteAt(ln, p)}
    IN  IF opens = {} THEN {}
        ELSE LET p == Min(opens)
                 closes == {q \in (p + 1)..Len(ln) :
                               ln[q] = ln[p] /\ UnescapedQuoteAt(ln, q)}
             IN  IF closes = {} THEN {}
                 ELSE {<<p, Min(closes)>>} \cup Regions(ln, Min(closes) + 1)

InRegion(ln, p) == \E r \in Regions(ln, 1) : r[1] <= p /\ p <= r[2]

\* Character p follows an unescaped backslash outside a quoted region.
EscapedOutside(ln, p) ==
    /\ ~InRegion(ln, p)
    /\ BackslashesBefore(ln, p) % 2 = 1

\* Character p lies inside the span of token tk.
Covers(tk, p) == tk.begin < p /\ p <= tk.end

\* C12: when tokenize succeeds, every escaped character outside a quoted
\* region lies inside the span of some emitted STRING token.
C12_EscapedCharacterKept ==
    TokenizeSucceeded =>
        \A p \in 1..Len(commandline) :
            EscapedOutside(commandline, p) =>
                \E k \in 1..Len(tst.tokens) :
                    /\ tst.tokens[k].type = "STRING"
                    /\ Covers(tst.tokens[k], p)

\* Character p is an unescaped character that keeps a STRING token open:
\* neither a space, a separator nor a backslash.
KeepsTokenOpen(ln, p) ==
    /\ ~IsBreak(ln[p])
    /\ ln[p] # "\\"
    /\ BackslashesBefore(ln, p) % 2 = 0

\* C13: when tokenize succeeds, for every quoted region one STRING token
\* spans the opening and the closing quote, no token begins or ends between
\* the opening quote and the closing one (so a space, `;', CR or LF in the
\* region closes nothing and yields no END_STMT), and when the character
\* before the opening quote belongs to an open STRING token no token begins
\* at the quote.
C13_QuotedRegionAtomic ==
    TokenizeSucceeded =>
        \A r \in Regions(commandline, 1) :
            LET p == r[1]
                q == r[2]
                toks == tst.tokens
            IN  /\ \E k \in 1..Len(toks) :
                       /\ toks[k].type = "STRING"
                       /\ Covers(toks[k], p)
                       /\ Covers(toks[k], q)
                /\ \A k \in 1..Len(toks) :
                       /\ toks[k].begin \notin p..(q - 1)
                       /\ toks[k].type = "STRING" => toks[k].end \notin p..(q - 1)
                /\ (p > 1 /\ KeepsTokenOpen(commandline, p - 1)) =>
                       \A k \in 1..Len(toks) : toks[k].begin # p - 1

\* a=" " is one token: the space between the quotes closes nothing.
C13_Witness ==
    /\ tout = "tokenized"
    /\ commandline = <<"a", "=", "\"", " ", "\"">>
    /\ Len(tst.tokens) = 2
    /\ tst.tokens[1] = [type |-> "STRING", begin |-> 0, end |-> 5]

(***************************************************************************)
(* Properties of the parser.                                               *)
(***************************************************************************)
TokenText(k) == Span(commandline, tst.tokens[k].begin, tst.tokens[k].end)

StringTokens == {k \in 1..Len(tst.tokens) : tst.tokens[k].type = "STRING"}

\* The text contains a `=', begins with a letter or `_', and has only
\* letters, digits and `_' between its first character and its first `='.
AssignmentShape(t) ==
    /\ "=" \in Range(t)
    /\ t[1] \in Letters \cup {"_"}
    /\ LET e == Min({i \in 1..Len(t) : t[i] = "="})
       IN  \A j \in 2..(e - 1) : t[j] \in Letters \cup Digits \cup {"_"}

\* C14: is_assignment holds of a STRING token exactly when its text has the
\* shape of an assignment; and every Assignment of the chain has an
\* identifier for name and is one STRING token split at its first `=':
\* the name before it, the raw value after it up to the end of the token.
C14_AssignmentShape ==
    /\ TokenizeSucceeded =>
           \A k \in StringTokens :
               is_assignment(commandline, tst.tokens[k]) <=> AssignmentShape(TokenText(k))
    /\ tout = "parsed" =>
           \A n \in 1..Len(chain_out) :
               chain_out[n].type = "ASSIGN" =>
                   /\ IsIdentifier(chain_out[n].lhs)
                   /\ \E k \in StringTokens :
                          TokenText(k) = chain_out[n].lhs \o <<"=">> \o chain_out[n].rhs

\* a1==1 assigns the raw value =1 to a1.
C14_Witness ==
    /\ tout = "parsed"
    /\ commandline = <<"a", "1", "=", "=", "1">>
    /\ chain_out = <<[type |-> "ASSIGN", lhs |-> <<"a", "1">>, rhs |-> <<"=", "1">>]>>

\* The Assignment made of a text of assignment shape.
AssignmentOf(t) ==
    LET e == Min({i \in 1..Len(t) : t[i] = "="})
    IN  [type |-> "ASSIGN", lhs |-> SubSeq(t, 1, e - 1), rhs |-> SubSeq(t, e + 1, Len(t))]

\* The statements of the texts between two END_STMT tokens: leading texts of
\* assignment shape are Assignments of their own, the first other text
\* starts a Command that takes every text that is left.
RECURSIVE GroupWords(_)
GroupWords(ws) ==
    IF ws = <<>> THEN <<>>
    ELSE IF AssignmentShape(ws[1])
    THEN <<AssignmentOf(ws[1])>> \o GroupWords(Tail(ws))
    ELSE <<[type |-> "COMMAND", command_line |-> ws]>>

\* The statements of the tokens from token k on, ws being the texts met
\* since the last END_STMT token.
RECURSIVE Statements(_, _)
Statements(k, ws) ==
    IF k > Len(tst.tokens) THEN GroupWords(ws)
    ELSE IF tst.tokens[k].type = "END_STMT"
    THEN GroupWords(ws) \o Statements(k + 1, <<>>)
    ELSE Statements(k + 1, Append(ws, TokenText(k)))

\* C15: the chain is, in source order, what the grouping rule gives for the
\* tokens: an Assignment for each text of assignment shape at the start of
\* a statement, one Command for the first other text and all the texts up to
\* the next END_STMT; a line without STRING token gives the empty chain.
C15_StatementGrouping ==
    tout = "parsed" =>
        /\ chain_out = Statements(1, <<>>)
        /\ StringTokens = {} => chain_out = <<>>

\* a a=1 is one Command: the text of assignment shape is its argument.
C15_Witness ==
    /\ tout = "parsed"
    /\ commandline = <<"a", " ", "a", "=", "1">>
    /\ chain_out = <<[type |-> "COMMAND",
                      command_line |-> <<(<<"a">>), <<"a", "=", "1">>>>]>>

(***************************************************************************)
(* Properties of the execution of a chain.                                 *)
(***************************************************************************)
\* The expansion of the raw value, or of some raw argument, fails.
StatementThrows(stmt, map) ==
    IF stmt.type = "ASSIGN"
    THEN unescape_string_literal(stmt.rhs, map).thrown
    ELSE \E k \in 1..Len(stmt.command_line) :
             unescape_string_literal(stmt.command_line[k], map).thrown

ExpandedArgs(stmt, map) ==
    [k \in 1..Len(stmt.command_line) |->
        unescape_string_literal(stmt.command_line[k], map).result]

\* The step from the unprimed state to the primed one performs stmt.
Performs(stmt) ==
    IF stmt.type = "ASSIGN"
    THEN /\ stmt.lhs \in DOMAIN variable_map'
         /\ variable_map'[stmt.lhs] = unescape_string_literal(stmt.rhs, variable_map).result
         /\ dispatched' = dispatched
    ELSE /\ variable_map' = variable_map
         /\ Len(dispatched') = Len(dispatched) + 1
         /\ SubSeq(dispatched', 1, Len(dispatched)) = dispatched
         /\ dispatched'[Len(dispatched')].args = ExpandedArgs(stmt, variable_map)

Running == pc = "exec" /\ ip <= Len(chain)

\* C16: the execution of a chain starts at its first statement; each step
\* performs the statement the chain pointer is at and moves the pointer to
\* the next one, whatever status the commands before it returned, unless the
\* expansion of that statement fails; the chain is left only after its last
\* statement.
C16_SequentialUnconditional ==
    [][/\ (pc = "parse" /\ pc' = "exec") => ip' = 1
       /\ Running =>
              /\ chain' = chain
              /\ IF StatementThrows(chain[ip], variable_map)
                 THEN pc' = "catch"
                 ELSE /\ pc' = "exec"
                      /\ ip' = ip + 1
                      /\ Performs(chain[ip])
       /\ (pc = "exec" /\ ~Running) =>
              /\ ip = Len(chain) + 1
              /\ UNCHANGED <<variable_map, dispatched>>]_vars

NoSuchLine == <<"n", "o", "s", "u", "c", "h", ";", "X", "=", "3">>

\* nosuch;X=3: the unknown command returned 255 and X=3 was performed.
C16_Witness ==
    /\ pc = "exec"
    /\ phase = "line"
    /\ line = NoSuchLine
    /\ ip = 3
    /\ dispatched[Len(dispatched)].status = 255
    /\ dispatched[Len(dispatched)].handler = <<>>
    /\ NameX \in DOMAIN variable_map
    /\ variable_map[NameX] = <<"3">>

\* A statement before the chain pointer is the command exit, and the exit
\* flag is set.
ExitRaisedInChain ==
    /\ repl_exited
    /\ \E j \in 1..(ip - 1) :
           /\ j <= Len(chain)
           /\ chain[j].type = "COMMAND"
           /\ chain[j].command_line[1] = ExitName

\* C17: once a statement of the chain has raised the exit flag, no later
\* statement of that chain is executed: no variable is assigned and no
\* command is dispatched.
C17_NoStatementAfterExit ==
    [][(pc = "exec" /\ ExitRaisedInChain) =>
          UNCHANGED <<variable_map, dispatched>>]_vars

\* C18: when the processing of a line has ended, on whatever path, every
\* chain node the parser allocated has been released, and none is released
\* twice.
C18_ChainReleased ==
    /\ live_nodes >= 0
    /\ pc \in {"readline", "done"} => live_nodes = 0

\* C19: when the expansion of the statement the chain pointer is at fails,
\* the step changes neither the variables nor the dispatched commands (what
\* the statements before it did stays) and hands the error to the REPL;
\* the REPL then prints one diagnostic, executes nothing more of the line
\* and is back at reading a line.
C19_ExpansionErrorAbortsLine ==
    [][/\ (Running /\ StatementThrows(chain[ip], variable_map)) =>
              /\ pc' = "catch"
              /\ UNCHANGED <<variable_map, dispatched, repl_exited>>
       /\ pc = "catch" =>
              /\ pc' = "readline"
              /\ diagnostics' = diagnostics + 1
              /\ UNCHANGED <<variable_map, dispatched, repl_exited, lines_read>>]_vars

NameZ == <<"Z">>

\* The first line was X=1;Y=${;Z=1: X=1 is in place, Z=1 was not
\* performed, one diagnostic was printed and a second line is being run.
C19_Witness ==
    /\ lines_read = 2
    /\ diagnostics = 1
    /\ phase = "line"
    /\ pc = "exec"
    /\ line = <<"Y", "=", "2">>
    /\ NameX \in DOMAIN variable_map
    /\ variable_map[NameX] = <<"1">>
    /\ NameY \notin DOMAIN variable_map
    /\ NameZ \notin DOMAIN variable_map
    /\ dispatched = <<>>

(***************************************************************************)
(* Properties of the variable store.                                       *)
(***************************************************************************)
\* The store read as a total map: the empty string for a name without entry.
Value(map, n) == IF n \in DOMAIN map THEN map[n] ELSE <<>>

\* C20: no call removes a name; a lookup returns the value of the name, the
\* empty string when it has none, and changes nothing (it creates no
\* entry); add_variable(k, v) makes v the value of k, defines k and leaves
\* every other name as it was.  So a lookup of k returns the v of the last
\* add_variable(k, v), and the empty string before the first.
C20_StoreIsTotalMap ==
    [][/\ DOMAIN variable_map \subseteq DOMAIN variable_map'
       /\ (store_call'.op = "lookup" /\ store_call' # store_call) =>
              /\ store_call'.value = Value(variable_map, store_call'.key)
              /\ variable_map' = variable_map
       /\ (store_call'.op = "add" /\ store_call' # store_call) =>
              /\ DOMAIN variable_map' = DOMAIN variable_map \cup {store_call'.key}
              /\ Value(variable_map', store_call'.key) = store_call'.value
              /\ \A n \in StoreNames \ {store_call'.key} :
                     /\ Value(variable_map', n) = Value(variable_map, n)
                     /\ n \in DOMAIN variable_map' <=> n \in DOMAIN variable_map
       /\ store_call' = store_call => variable_map' = variable_map]_vars

\* Y was never assigned: its lookup returned the empty string and made no
\* entry, while X keeps the value of its last add_variable.
C20_Witness ==
    /\ store_call = [op |-> "lookup", key |-> NameY, value |-> <<>>]
    /\ NameY \notin DOMAIN variable_map
    /\ NameX \in DOMAIN variable_map
    /\ variable_map[NameX] = <<"2">>


(***************************************************************************)
(* Properties of command dispatch.                                         *)
(***************************************************************************)
DispatchReturned == dst.pc = "returned"

Unregistered == dst.given # <<>> /\ dst.given[1] \notin dst.registry

\* C21: dispatch on a list whose args[0] is not registered returns 255 and
\* invokes no handler when auto-shell is off or args[0] is "command"; when
\* auto-shell is on it retries with "command" prepended, at most once, so
\* dispatch always terminates (every pass that has not returned can take a
\* step, and no more than two lookups are ever made) and never prepends
\* "command" twice; an empty list returns 255 without any lookup.
C21_DispatchRetriesOnce ==
    /\ dst.prepends <= 1
    /\ dst.lookups <= dst.prepends + 1
    /\ ~DispatchReturned => ENABLED DispatchNext
    /\ (DispatchReturned /\ dst.given = <<>>) =>
           /\ dst.status = 255
           /\ dst.lookups = 0
           /\ dst.handler = <<>>
    /\ (DispatchReturned /\ Unregistered
            /\ (~dst.auto_shell \/ dst.given[1] = CommandName)) =>
           /\ dst.status = 255
           /\ dst.handler = <<>>
           /\ dst.prepends = 0
           /\ dst.args = dst.given
    /\ (DispatchReturned /\ Unregistered
            /\ dst.auto_shell /\ dst.given[1] # CommandName) =>
           /\ dst.prepends = 1
           /\ dst.lookups = 2
           /\ dst.args = <<CommandName>> \o dst.given
           /\ IF CommandName \in dst.registry
              THEN dst.handler = CommandName
              ELSE dst.handler = <<>> /\ dst.status = 255

\* An unregistered name retried with "command" prepended where "command"
\* is not registered either: the second lookup fails and 255 is returned.
C21_Witness ==
    /\ DispatchReturned
    /\ Unregistered
    /\ dst.auto_shell
    /\ dst.prepends = 1
    /\ CommandName \notin dst.registry
    /\ dst.status = 255

(***************************************************************************)
(* Properties of the REPL loop.                                            *)
(***************************************************************************)
\* A statement has been executed by this step.
StatementExecuted == pc = "exec" /\ pc' = "exec" /\ ip' = ip + 1

\* C22: once the exit flag has been set during the processing of a line (by
\* the user line, by PRE_COMMAND or by POST_COMMAND, also when a later
\* statement of the line raises an error), the REPL reads no further input
\* line.  (The claim adds that no further statement is executed; the loop
\* already fails the part stated here.)
C22_NoLineReadAfterExit == [][repl_exited => lines_read' = lines_read]_vars

\* The value a name has now, the empty text when it is not set.
CurrentValue(name) ==
    IF name \in DOMAIN variable_map THEN variable_map[name] ELSE <<>>

\* The command line of the phase: PRE_COMMAND, the user line, POST_COMMAND.
PhaseText ==
    CASE phase = "pre"  -> CurrentValue(PRE_COMMAND)
      [] phase = "line" -> line
      [] phase = "post" -> CurrentValue(POST_COMMAND)

PostExitLine ==
    <<"P", "O", "S", "T", "_", "C", "O", "M", "M", "A", "N", "D", "=",
      "e", "x", "i", "t">>

C24_PreCommandErrorKeepsLine ==
    [][(phase = "pre" /\ pc = "catch") => (phase' = "line" /\ pc' = "parse")]_vars

(***************************************************************************)
(* Properties of statement execution.                                      *)
(***************************************************************************)
\* The expansion of argument k of the command stmt fails.
ArgumentThrows(stmt, k) ==
    unescape_string_literal(stmt.command_line[k], variable_map).thrown

\* C25: a statement whose expansion fails has no effect of its own: an
\* assignment whose raw value raises bad substitution leaves the store as
\* it is (the name keeps its value or stays undefined), and a command of
\* which any argument, even the last, raises bad substitution invokes no
\* handler.
C25_FailedStatementHasNoEffect ==
    [][Running =>
          /\ (chain[ip].type = "ASSIGN"
                 /\ unescape_string_literal(chain[ip].rhs, variable_map).thrown) =>
                 /\ variable_map' = variable_map
                 /\ (chain[ip].lhs \in DOMAIN variable_map') =
                        (chain[ip].lhs \in DOMAIN variable_map)
          /\ (chain[ip].type = "COMMAND"
                 /\ \E k \in 1..Len(chain[ip].command_line) :
                        ArgumentThrows(chain[ip], k)) =>
                 /\ dispatched' = dispatched
                 /\ repl_exited' = repl_exited
                 /\ variable_map' = variable_map
      ]_vars

\* echo a ${ has thrown: the name and the first argument expand, the last
\* argument does not, and nothing has been dispatched.
C25_Witness ==
    /\ pc = "catch"
    /\ phase = "line"
    /\ ip <= Len(chain)
    /\ chain[ip].type = "COMMAND"
    /\ Len(chain[ip].command_line) = 3
    /\ ~ArgumentThrows(chain[ip], 1)
    /\ ~ArgumentThrows(chain[ip], 2)
    /\ ArgumentThrows(chain[ip], 3)
    /\ dispatched = <<>>

(***************************************************************************)
(* Properties of the expander inside double quotes.                        *)
(***************************************************************************)
\* The text between the first and the last character of str.
Body == SubSeq(str, 2, Len(str) - 1)

\* C26: substitution is performed inside double quotes: "$N" yields the
\* value of N without the quote characters; and inside double quotes a
\* backslash-escaped `$' is a literal `$' that starts no substitution:
\* "\$N" yields the text $N.
C26_DoubleQuotes ==
    (ExpandDone /\ Len(str) >= 2 /\ str[1] = "\"" /\ str[Len(str)] = "\"") =>
        /\ (Body # <<>> /\ Body[1] = "$" /\ IsIdentifier(Tail(Body))) =>
               /\ eout = "returned"
               /\ est.result = ValueOf(Tail(Body))
        /\ (Len(Body) >= 2 /\ Body[1] = "\\" /\ Body[2] = "$"
               /\ IsIdentifier(SubSeq(Body, 3, Len(Body)))) =>
               /\ eout = "returned"
               /\ est.result = Tail(Body)

\* "\$F" where F is bar has returned $F.
C26_Witness ==
    /\ eout = "returned"
    /\ str = <<"\"", "\\", "$", "F", "\"">>
    /\ ValueOf(<<"F">>) = <<"b", "a", "r">>
    /\ est.result = <<"$", "F">>

\* What one iteration on the character c may append to the result: nothing,
\* the character (mapped by the escape table after a backslash), a literal
\* `$', and before the last two the value of the name collected so far.
Appended(c) ==
    LET tail == {<<>>, <<c>>, <<Unescaped(c)>>, <<"$">>, <<"$", c>>}
    IN  tail \cup (IF est.var_name = <<>> THEN {}
                   ELSE {ValueOf(est.var_name) \o t : t \in {<<>>, <<c>>}})

\* C27: expansion is single-pass.  Each iteration consumes one character of
\* the raw text and appends to the result, without changing what is there,
\* at most the value of the name just ended, verbatim, and the character;
\* after the last character the function appends at most one value or `$'
\* and ends.  So `$N' and `${N}' return the value of N as it is stored, also
\* when that value is itself `$' followed by the name of a variable.
C27_SinglePass ==
    [][/\ str' = str
       /\ variable_map' = variable_map
       /\ eout = "running"
       /\ IF epos <= Len(str)
          THEN /\ epos' = epos + 1
               /\ \/ est'.thrown /\ eout' = "thrown"
                  \/ /\ eout' = "running"
                     /\ \E a \in Appended(str[epos]) :
                            est'.result = est.result \o a
          ELSE /\ epos' = epos
               /\ \/ est'.thrown /\ eout' = "thrown"
                  \/ /\ eout' = "returned"
                     /\ est'.result \in
                            {est.result, est.result \o <<"$">>,
                             est.result \o ValueOf(est.var_name)}
       /\ (eout' = "returned" /\ str # <<>> /\ str[1] = "$") =>
              /\ IsIdentifier(Tail(str)) => est'.result = ValueOf(Tail(str))
              /\ (Len(str) >= 4 /\ str[2] = "{" /\ str[Len(str)] = "}"
                     /\ IsIdentifier(SubSeq(str, 3, Len(str) - 1))) =>
                     est'.result = ValueOf(SubSeq(str, 3, Len(str) - 1))
      ]_vars

\* F is $_ and _ is u: $F has returned the text $_.
C27_Witness ==
    /\ eout = "returned"
    /\ str = <<"$", "F">>
    /\ ValueOf(<<"F">>) = <<"$", "_">>
    /\ ValueOf(<<"_">>) = <<"u">>
    /\ est.result = <<"$", "_">>

\* C28: expansion never splits, merges or removes arguments: the list handed
\* to dispatch has as many elements as the command statement has raw
\* arguments, in the same order, element i being the expansion of raw
\* argument i; an argument that expands to the empty string is passed as
\* an empty string and a value containing spaces stays one argument.
C28_ArgumentsOneToOne ==
    [][(Running /\ chain[ip].type = "COMMAND" /\ pc' = "exec") =>
          LET raw  == chain[ip].command_line
              call == dispatched'[Len(dispatched')]
          IN  /\ Len(dispatched') = Len(dispatched) + 1
              /\ Len(call.args) = Len(raw)
              /\ \A i \in 1..Len(raw) :
                     /\ ~unescape_string_literal(raw[i], variable_map).thrown
                     /\ call.args[i] =
                            unescape_string_literal(raw[i], variable_map).result
      ]_vars

\* X='a b';echo $X $Z has handed echo three arguments: echo, the value
\* a b with its space, and the empty string.
C28_Witness ==
    /\ dispatched # <<>>
    /\ dispatched[Len(dispatched)].handler = Echo
    /\ dispatched[Len(dispatched)].args = <<Echo, <<"a", " ", "b">>, <<>>>>

SeekLine ==
    <<SeekName[1], SeekName[2], SeekName[3], SeekName[4], " ">> \o TooLong
        \o <<";", "X", "=", "3">>

\* C29: an exception thrown by a command handler is not an error of the
\* line: dispatch catches it and returns 255, the chain pointer moves on to
\* the next statement, and the line and POST_COMMAND are run as after any
\* other command; only tokenize and expansion errors reach the catch block
\* of the REPL.
C29_HandlerExceptionIsStatus ==
    [][/\ (Running /\ chain[ip].type = "COMMAND"
              /\ ~StatementThrows(chain[ip], variable_map)
              /\ ExpandedArgs(chain[ip], variable_map)[1] \in command_map
              /\ HandlerThrows(ExpandedArgs(chain[ip], variable_map))) =>
              /\ pc' = "exec"
              /\ ip' = ip + 1
              /\ diagnostics' = diagnostics
              /\ dispatched'[Len(dispatched')].caught
              /\ dispatched'[Len(dispatched')].status = 255
       /\ pc' = "catch" =>
              \/ pc = "parse" /\ parse_command_line(CommandText).thrown
              \/ Running /\ StatementThrows(chain[ip], variable_map)
       /\ (pc = "exec" /\ ip > Len(chain) /\ phase = "line" /\ ~repl_exited) =>
              (phase' = "post" /\ pc' = "parse")
      ]_vars

\* seek with a count std::stol cannot hold has thrown inside the handler:
\* X=3 was executed after it and the POST_COMMAND line has run its command.
C29_Witness ==
    /\ line = SeekLine
    /\ phase = "post"
    /\ pc = "exec"
    /\ ip = 2
    /\ diagnostics = 0
    /\ Len(dispatched) = 2
    /\ dispatched[1].handler = SeekName
    /\ dispatched[1].caught
    /\ dispatched[1].status = 255
    /\ dispatched[2].handler = XdName
    /\ NameX \in DOMAIN variable_map
    /\ variable_map[NameX] = <<"3">>

(***************************************************************************)
(* Properties of the token spans.                                          *)
(***************************************************************************)
\* C30: in every token sequence tokenize returns, each token but the
\* trailing END_STMT has a span with 0 <= begin < end <= length of the line,
\* the tokens are in strictly increasing order of begin, and none overlaps
\* the one before it (its begin is at least that token's end).
C30_TokenSpansOrdered ==
    TokenizeSucceeded =>
        LET toks == tst.tokens
            n    == Len(toks)
        IN  /\ \A k \in 1..(n - 1) :
                   /\ 0 <= toks[k].begin
                   /\ toks[k].begin < toks[k].end
                   /\ toks[k].end <= Len(commandline)
            /\ \A k \in 2..(n - 1) :
                   /\ toks[k - 1].begin < toks[k].begin
                   /\ toks[k - 1].end <= toks[k].begin

\* A word of three characters, a separator and a word that begins where
\* the separator ends: three tokens before the trailing END_STMT.
C30_Witness ==
    /\ tout = "tokenized"
    /\ Len(tst.tokens) = 4
    /\ tst.tokens[1].type = "STRING"
    /\ tst.tokens[2].type = "END_STMT"
    /\ tst.tokens[3].type = "STRING"
    /\ tst.tokens[1].end - tst.tokens[1].begin = 3
    /\ tst.tokens[2].end = tst.tokens[3].begin

(***************************************************************************)
(* Conservation of tokens by the parser.                                   *)
(***************************************************************************)
\* The texts of the STRING tokens from token k on, in order.
RECURSIVE StringTexts(_)
StringTexts(k) ==
    IF k > Len(tst.tokens) THEN <<>>
    ELSE IF tst.tokens[k].type = "STRING"
    THEN <<TokenText(k)>> \o StringTexts(k + 1)
    ELSE StringTexts(k + 1)

\* The token texts a statement was made of.
TextsOf(stmt) ==
    IF stmt.type = "ASSIGN"
    THEN <<stmt.lhs \o <<"=">> \o stmt.rhs>>
    ELSE stmt.command_line

\* The token texts the statements of a chain were made of, in order.
RECURSIVE ChainTexts(_)
ChainTexts(c) ==
    IF c = <<>> THEN <<>> ELSE TextsOf(c[1]) \o ChainTexts(Tail(c))

\* C31: the parser conserves tokens: the texts the statements of the chain
\* are made of (the one token of an Assignment, the arguments of a Command)
\* are, in order and one for one, the texts of the STRING tokens, so every
\* STRING token is in exactly one statement and no END_STMT token is in
\* any; every Command has at least one argument, so the list it hands to
\* dispatch is never empty.
C31_ParserConservesTokens ==
    tout = "parsed" =>
        /\ ChainTexts(chain_out) = StringTexts(1)
        /\ \A n \in 1..Len(chain_out) :
               chain_out[n].type = "COMMAND" =>
                   /\ Len(chain_out[n].command_line) >= 1
                   /\ \A m \in Stores :
                          LET a == command_args(chain_out[n], m)
                          IN  ~a.thrown => a.args # <<>>

\* A Command of two arguments and a Command of one, made of the three
\* STRING tokens of the line; the two END_STMT tokens are in neither.
C31_Witness ==
    /\ tout = "parsed"
    /\ Len(chain_out) = 2
    /\ chain_out[1].type = "COMMAND"
    /\ Len(chain_out[1].command_line) = 2
    /\ chain_out[2].type = "COMMAND"
    /\ Len(chain_out[2].command_line) = 1
    /\ Cardinality(StringTokens) = 3
    /\ Len(tst.tokens) = 5

(***************************************************************************)
(* Properties of the exit flag.                                            *)
(***************************************************************************)
\* The step has invoked the handler of exit.
ExitInvoked ==
    /\ Len(dispatched') = Len(dispatched) + 1
    /\ dispatched'[Len(dispatched')].handler = ExitName

\* C32: the exit flag is monotonic: it is false initially, a step sets it
\* exactly when it invokes the handler of exit, and no step (command,
\* assignment, clean-up, catch block, reading a line) resets it.
C32_ExitFlagMonotonic ==
    /\ ~repl_exited
    /\ [][/\ repl_exited => repl_exited'
          /\ (~repl_exited /\ repl_exited') =>
                 (Running /\ chain[ip].type = "COMMAND" /\ ExitInvoked)
          /\ ExitInvoked => repl_exited'
         ]_vars

\* exit;Y=${ then another line: the flag set by exit is still set after the
\* catch block, while the next line is being run.
C32_Witness ==
    /\ repl_exited
    /\ diagnostics = 1
    /\ lines_read = 2
    /\ pc = "exec"
    /\ phase = "line"

(***************************************************************************)
(* Properties of the buffer store.                                         *)
(***************************************************************************)
\* Every cursor is inside its buffer, or 0 in an empty buffer.
CursorsInside ==
    \A i \in 1..Len(files) :
        /\ files[i].cursor >= 0
        /\ IF files[i].size = 0
           THEN files[i].cursor = 0
           ELSE files[i].cursor < files[i].size

\* C33: for every loaded buffer, after any sequence of seek and goto
\* commands (and of the other buffer commands), the cursor is less than the
\* size when the buffer is not empty and 0 when it is empty; a seek or goto
\* that returns 1 leaves the cursor of every buffer as it was.
C33_CursorInBuffer ==
    /\ []CursorsInside
    /\ [][(file_call'.op \in {SeekName, GotoName} /\ file_call'.status = 1) =>
             /\ Len(files') = Len(files)
             /\ \A i \in 1..Len(files) : files'[i].cursor = files[i].cursor
         ]_vars

\* Two buffers, one of them empty; the cursor of the other is at its last
\* byte and the seek just tried on it was rejected.
C33_Witness ==
    /\ Len(files) = 2
    /\ files[1].size = 3
    /\ files[1].cursor = 2
    /\ files[2].size = 0
    /\ file_call.op = SeekName
    /\ file_call.status = 1
    /\ default_file_num = 0

\* What a well-formed seek COUNT [BUF] [BASE] is asked to do in the buffers
\* fs with default dflt: the buffer it names (index + 1) and the offset
\* base + COUNT, base being the cursor when BASE is omitted, BASE when it is
\* not negative and size + BASE when it is.  ok is FALSE when COUNT or BASE
\* is not a number, BUF is not an existing buffer or an argument is left over.
SeekRequest(args, fs, dflt) ==
    LET none == [ok |-> FALSE, f |-> 0, target |-> 0]
        c == ParseInteger(args[2], 0)
        f == IF Len(args) >= 3
             THEN ParseInteger(Tail(args[3]), 10).mag + 1
             ELSE dflt + 1
        n == ParseInteger(args[4], 0)
        base == IF Len(args) < 4 THEN fs[f].cursor
                ELSE IF Signed(n) >= 0 THEN Signed(n)
                ELSE fs[f].size + Signed(n)
    IN  IF Len(args) \notin 2..4 \/ ~c.ok THEN none
        ELSE IF Len(args) >= 3 /\ ~IsBufferRepr(args[3]) THEN none
        ELSE IF f > Len(fs) THEN none
        ELSE IF Len(args) = 4 /\ ~n.ok THEN none
        ELSE [ok |-> TRUE, f |-> f, target |-> base + Signed(c)]

\* C34: seek COUNT [BUF] [BASE] sets the cursor to base + COUNT and returns 0
\* whenever 0 <= base + COUNT < size, a backward seek to offset 0 included,
\* and returns 1 otherwise.
C34_SeekArithmetic ==
    [][file_call'.op = SeekName =>
          LET r == SeekRequest(file_call'.args, files, default_file_num)
          IN  r.ok =>
                  IF 0 <= r.target /\ r.target < files[r.f].size
                  THEN /\ file_call'.status = 0
                       /\ files'[r.f].cursor = r.target
                  ELSE file_call'.status = 1
      ]_vars

\* The BUF argument of a buffer command, by its usage line: seek COUNT [BUF]
\* [BASE], goto ADDR [BUF], cursor [bin|oct|dec|hex] [BUF], default BUF.
BufArgument(args) ==
    LET at(k) == IF Len(args) >= k THEN [given |-> TRUE, text |-> args[k]]
                 ELSE [given |-> FALSE, text |-> <<>>]
    IN  CASE args[1] \in {SeekName, GotoName} -> at(3)
          [] args[1] = DefaultName -> at(2)
          [] args[1] = CursorName ->
                 IF Len(args) >= 2 /\ args[2] \in CursorStyles THEN at(3) ELSE at(2)

\* No buffer other than f (index + 1) has moved its cursor.
OnlyMoves(f) ==
    /\ Len(files') = Len(files)
    /\ \A i \in 1..Len(files) : i # f => files'[i] = files[i]

\* C35: a command that names an existing buffer %N works on buffer N and,
\* when it succeeds, has made N the default, and a command without BUF
\* works on the default; a
\* BUF that is malformed or names no buffer makes the command fail and
\* leaves the default as it was; load leaves the existing buffers at their
\* indices.
C35_DefaultBuffer ==
    [][/\ file_call'.op = LoadName =>
             /\ Len(files') >= Len(files)
             /\ \A i \in 1..Len(files) : files'[i] = files[i]
       /\ file_call'.op \in {SeekName, GotoName, CursorName, DefaultName} =>
             LET b == BufArgument(file_call'.args)
                 n == ParseInteger(Tail(b.text), 10).mag
             IN  IF ~b.given
                 THEN /\ default_file_num' = default_file_num
                      /\ OnlyMoves(default_file_num + 1)
                 ELSE IF IsBufferRepr(b.text) /\ n < Len(files)
                 THEN /\ OnlyMoves(n + 1)
                      /\ file_call'.status = 0 => default_file_num' = n
                 ELSE /\ file_call'.status = 1
                      /\ default_file_num' = default_file_num
                      /\ OnlyMoves(0)
      ]_vars

\* The digits of the integer a text begins with, after spaces and a sign;
\* empty when it begins with none.
LeadingInteger(v) ==
    LET t0 == SkipSpaces(v)
        t1 == IF t0 # <<>> /\ t0[1] \in {"-", "+"} THEN Tail(t0) ELSE t0
    IN  SubSeq(t1, 1, DigitRun(t1, 10))

LowerCased(v) == [i \in 1..Len(v) |-> tolower(v[i])]

\* C36: no text is both truthy and falsy; a text with a leading integer is
\* truthy exactly when the integer is not zero and falsy exactly when it is;
\* any other text is truthy only as true / yes / on and falsy only as false /
\* no / off, whatever the case; and mode auto-shell V with a non-empty V
\* leaves auto-shell on exactly when V is truthy.
C36_Truthiness ==
    /\ mode_call.pc = "tested" =>
           LET v == mode_call.expr
               digits == LeadingInteger(v)
               zero == \A i \in 1..Len(digits) : digits[i] = "0"
           IN  /\ ~(mode_call.truthy /\ mode_call.falsy)
               /\ IF digits # <<>>
                  THEN /\ mode_call.truthy <=> ~zero
                       /\ mode_call.falsy <=> zero
                  ELSE /\ mode_call.truthy <=> LowerCased(v) \in TrueWords
                       /\ mode_call.falsy <=> LowerCased(v) \in FalseWords
    /\ (/\ mode_call.pc = "returned"
        /\ Len(mode_call.args) = 3
        /\ mode_call.args[2] = AutoShellKey
        /\ mode_call.args[3] # <<>>) =>
           /\ mode_call.status = 0
           /\ auto_shell <=> is_truthy(mode_call.args[3])

\* C37: between any two characters of the input of the expander the name
\* buffer is empty while the substitution state is NONE or MAYBE and not
\* empty while it is PLAIN, and the escape flag or the single-quote flag is
\* set only while the substitution state is NONE.
C37_ExpanderState ==
    eout = "running" =>
        /\ est.var_expand \in {"NONE", "MAYBE"} => est.var_name = <<>>
        /\ est.var_expand = "PLAIN" => est.var_name # <<>>
        /\ (est.esc_sequence \/ est.single_quot) => est.var_expand = "NONE"

\* $F$F read to its end: the first substitution has been made and the name
\* buffer holds the second name only.
C37_Witness ==
    /\ eout = "running"
    /\ str = <<"$", "F", "$", "F">>
    /\ epos = 5
    /\ est.var_expand = "PLAIN"
    /\ est.var_name = <<"F">>
    /\ est.result = <<"b", "a", "r">>
====
